---- MODULE Spec2Model ----
(***************************************************************************)
(* URL feature extraction of phish-ml (feature_extraction.py).             *)
(*                                                                         *)
(* A Python str is modelled as a sequence of one-character strings, so     *)
(* that find, replace, split, endswith, lower and the regular expressions  *)
(* of the detectors are computed character by character as CPython does.   *)
(***************************************************************************)
EXTENDS Integers, Sequences, FiniteSets, TLC

VARIABLES
    url,        \* the argument of the extract_features call in progress
    fault,      \* detector inside which an exception is raised during this call, or NoFault
    pc,         \* "idle" | "called" | "returned" | "raised"
    extractors, \* the URLFeatureExtractor objects constructed so far: their registries
    this,       \* index of the extractor that serves the call in progress
    history,    \* the calls completed before the one in progress, with what they handed back
    retrain,    \* the run of retrain_improved_model.main in progress, or NoRetrain
    request,    \* the POST /predict request being handled and its response, or NoRequest
    dataset,    \* the table given to balance_dataset and the table it returned, or NoDataset
    threads,    \* the extract_features calls running concurrently on extractor 1: their locals
    frame,      \* the locals of the process_urls_batch call in progress, or NoFrame
    columns,    \* the keys of the mapping handed back, in the order they were inserted
    features    \* the mapping handed back to the caller (NoFeatures before the first return)

vars == <<url, fault, pc, extractors, this, history, retrain, request, dataset, threads, frame, columns,
          features>>

----------------------------------------------------------------------------
(* str primitives                                                          *)

UpperChars == <<"A","B","C","D","E","F","G","H","I","J","K","L","M","N","O","P","Q","R","S","T","U","V","W","X","Y","Z">>
LowerChars == <<"a","b","c","d","e","f","g","h","i","j","k","l","m","n","o","p","q","r","s","t","u","v","w","x","y","z">>
DigitChars == {"0","1","2","3","4","5","6","7","8","9"}
AsciiLower == {LowerChars[i] : i \in 1..26}
AsciiUpper == {UpperChars[i] : i \in 1..26}

Min(S) == CHOOSE i \in S : \A j \in S : i <= j

\* c.lower() for one character
LowerChar(c) ==
    IF c \in AsciiUpper
    THEN LowerChars[CHOOSE i \in 1..26 : UpperChars[i] = c]
    ELSE c

\* s.lower()
Lower(s) == [i \in 1..Len(s) |-> LowerChar(s[i])]

\* s[i:].startswith(sub), i counted from 1
MatchAt(s, i, sub) ==
    /\ i >= 1
    /\ i + Len(sub) - 1 <= Len(s)
    /\ \A k \in 1..Len(sub) : s[i + k - 1] = sub[k]

StartsWith(s, p) == MatchAt(s, 1, p)
EndsWith(s, p) == MatchAt(s, Len(s) - Len(p) + 1, p)

\* s.find(sub) + 1: the first position of sub in s, 0 when absent
Find(s, sub) ==
    LET hits == {i \in 1..(Len(s) - Len(sub) + 1) : MatchAt(s, i, sub)}
    IN  IF hits = {} THEN 0 ELSE Min(hits)

\* sub in s
Contains(s, sub) == \E i \in 1..(Len(s) - Len(sub) + 1) : MatchAt(s, i, sub)

\* s.count(c) for a one-character c
Count(s, c) == Cardinality({i \in 1..Len(s) : s[i] = c})

\* s[i-1:] counted from 1
From(s, i) == SubSeq(s, i, Len(s))

\* s.replace(old, new): non-overlapping occurrences, left to right
RECURSIVE Replace(_, _, _)
Replace(s, old, new) ==
    LET i == Find(s, old)
    IN  IF i = 0 THEN s
        ELSE SubSeq(s, 1, i - 1) \o new \o Replace(From(s, i + Len(old)), old, new)

\* s.split(sep)[-1]: what follows the last occurrence found scanning left to right
RECURSIVE SplitLast(_, _)
SplitLast(s, sep) ==
    LET i == Find(s, sep)
    IN  IF i = 0 THEN s ELSE SplitLast(From(s, i + Len(sep)), sep)

\* s.split(sep) for a one-character sep
RECURSIVE Split(_, _)
Split(s, sep) ==
    LET i == Find(s, <<sep>>)
    IN  IF i = 0 THEN <<s>>
        ELSE <<SubSeq(s, 1, i - 1)>> \o Split(From(s, i + 1), sep)

\* max written where min was meant
min_as_max(a, b) == IF a >= b THEN a ELSE b

\* min(a, b)
min(a, b) == IF a <= b THEN a ELSE b

\* re.search of a fixed-length pattern given as a sequence of character classes
SearchClasses(s, pat) ==
    \E i \in 1..(Len(s) - Len(pat) + 1) :
        \A k \in 1..Len(pat) : s[i + k - 1] \in pat[k]

\* re.search(r'[a-z]+[d]{2,}[a-z]+', s, re.IGNORECASE): a letter, two or
\* more d, a letter
SearchRun(s, d) ==
    \E i \in 1..Len(s), j \in 1..Len(s) :
        /\ j >= i + 3
        /\ LowerChar(s[i]) \in AsciiLower
        /\ LowerChar(s[j]) \in AsciiLower
        /\ \A k \in (i + 1)..(j - 1) : s[k] = d

----------------------------------------------------------------------------
(* urllib.parse.urlparse, as far as extract_features uses it               *)

scheme_chars == AsciiLower \cup AsciiUpper \cup DigitChars \cup {"+", "-", "."}

uses_params == {<<>>, <<"f","t","p">>, <<"h","d","l">>, <<"p","r","o","s","p","e","r","o">>, <<"h","t","t","p">>, <<"i","m","a","p">>,
                <<"h","t","t","p","s">>, <<"s","h","t","t","p">>, <<"r","t","s","p">>, <<"r","t","s","p","u">>, <<"s","i","p">>, <<"s","i","p","s">>,
                <<"m","m","s">>, <<"s","f","t","p">>, <<"t","e","l">>}

\* the first position >= start of one of the characters of cs, Len(s) + 1 when none
FirstOf(s, cs, start) ==
    LET hits == {i \in start..Len(s) : s[i] \in cs}
    IN  IF hits = {} THEN Len(s) + 1 ELSE Min(hits)

\* _splitparams(url)
_splitparams(p) ==
    LET slashes == {i \in 1..Len(p) : p[i] = "/"}
        lastSlash == IF slashes = {} THEN 0 ELSE CHOOSE i \in slashes : \A j \in slashes : j <= i
        i == FirstOf(p, {";"}, lastSlash + 1)
    IN  IF i > Len(p) THEN p ELSE SubSeq(p, 1, i - 1)

\* urlparse(url): [raised, scheme, netloc, path]; raised models the
\* ValueError("Invalid IPv6 URL") of urlsplit
urlparse(u) ==
    LET colon == Find(u, <<":">>)
        hasScheme == /\ colon > 1
                     /\ u[1] \in AsciiLower \cup AsciiUpper
                     /\ \A k \in 1..(colon - 1) : u[k] \in scheme_chars
        scheme == IF hasScheme THEN Lower(SubSeq(u, 1, colon - 1)) ELSE <<>>
        rest == IF hasScheme THEN From(u, colon + 1) ELSE u
        hasNetloc == StartsWith(rest, <<"/", "/">>)
        delim == FirstOf(rest, {"/", "?", "#"}, 3)
        netloc == IF hasNetloc THEN SubSeq(rest, 3, delim - 1) ELSE <<>>
        rest2 == IF hasNetloc THEN From(rest, delim) ELSE rest
        noFrag == SubSeq(rest2, 1, FirstOf(rest2, {"#"}, 1) - 1)
        noQuery == SubSeq(noFrag, 1, FirstOf(noFrag, {"?"}, 1) - 1)
        path == IF scheme \in uses_params /\ Contains(noQuery, <<";">>)
                THEN _splitparams(noQuery) ELSE noQuery
        open == Contains(netloc, <<"[">>)
        close == Contains(netloc, <<"]">>)
    IN  [raised |-> open # close, scheme |-> scheme, netloc |-> netloc, path |-> path]

----------------------------------------------------------------------------
(* URLFeatureExtractor.__init__: the registries                            *)

suspicious_tlds == <<<<".","t","k">>, <<".","m","l">>, <<".","g","a">>, <<".","c","f">>, <<".","g","q">>, <<".","l","o","a","n">>, <<".","w","i","n">>, <<".","b","i","d">>>>

brand_keywords == <<<<"p","a","y","p","a","l">>, <<"a","m","a","z","o","n">>, <<"m","i","c","r","o","s","o","f","t">>, <<"g","o","o","g","l","e">>, <<"a","p","p","l","e">>,
                    <<"f","a","c","e","b","o","o","k">>, <<"n","e","t","f","l","i","x">>, <<"w","h","a","t","s","a","p","p">>, <<"i","n","s","t","a","g","r","a","m">>>>

legitimate_domains == {
    <<"g","o","o","g","l","e",".","c","o","m">>, <<"y","o","u","t","u","b","e",".","c","o","m">>, <<"g","m","a","i","l",".","c","o","m">>, <<"g","s","t","a","t","i","c",".","c","o","m">>,
    <<"g","o","o","g","l","e","a","p","i","s",".","c","o","m">>, <<"m","i","c","r","o","s","o","f","t",".","c","o","m">>, <<"l","i","v","e",".","c","o","m">>, <<"o","u","t","l","o","o","k",".","c","o","m">>,
    <<"o","f","f","i","c","e",".","c","o","m">>, <<"a","z","u","r","e",".","c","o","m">>, <<"a","p","p","l","e",".","c","o","m">>, <<"i","c","l","o","u","d",".","c","o","m">>,
    <<"a","p","p","l","e",".","c","o">>, <<"a","m","a","z","o","n",".","c","o","m">>, <<"a","m","a","z","o","n","a","w","s",".","c","o","m">>, <<"a","w","s",".","a","m","a","z","o","n",".","c","o","m">>,
    <<"f","a","c","e","b","o","o","k",".","c","o","m">>, <<"f","b",".","c","o","m">>, <<"f","b","c","d","n",".","n","e","t">>, <<"t","w","i","t","t","e","r",".","c","o","m">>, <<"x",".","c","o","m">>,
    <<"t",".","c","o">>, <<"l","i","n","k","e","d","i","n",".","c","o","m">>, <<"i","n","s","t","a","g","r","a","m",".","c","o","m">>, <<"n","e","t","f","l","i","x",".","c","o","m">>,
    <<"p","a","y","p","a","l",".","c","o","m">>, <<"s","t","r","i","p","e",".","c","o","m">>, <<"w","h","a","t","s","a","p","p",".","c","o","m">>, <<"w","a",".","m","e">>,
    <<"s","l","a","c","k",".","c","o","m">>, <<"z","o","o","m",".","u","s">>, <<"d","i","s","c","o","r","d",".","c","o","m">>, <<"t","e","l","e","g","r","a","m",".","o","r","g">>,
    <<"g","i","t","h","u","b",".","c","o","m">>, <<"g","i","t","l","a","b",".","c","o","m">>, <<"b","i","t","b","u","c","k","e","t",".","o","r","g">>, <<"s","t","a","c","k","o","v","e","r","f","l","o","w",".","c","o","m">>,
    <<"s","t","a","c","k","e","x","c","h","a","n","g","e",".","c","o","m">>, <<"o","p","e","n","a","i",".","c","o","m">>, <<"c","h","a","t","g","p","t",".","c","o","m">>,
    <<"c","h","a","t",".","o","p","e","n","a","i",".","c","o","m">>, <<"p","l","a","t","f","o","r","m",".","o","p","e","n","a","i",".","c","o","m">>, <<"a","p","i",".","o","p","e","n","a","i",".","c","o","m">>,
    <<"a","u","t","h","0",".","o","p","e","n","a","i",".","c","o","m">>, <<"c","d","n",".","o","p","e","n","a","i",".","c","o","m">>, <<"a","n","t","h","r","o","p","i","c",".","c","o","m">>,
    <<"c","l","a","u","d","e",".","a","i">>, <<"c","o","n","s","o","l","e",".","a","n","t","h","r","o","p","i","c",".","c","o","m">>, <<"n","p","m","j","s",".","c","o","m">>, <<"p","y","p","i",".","o","r","g">>,
    <<"c","u","r","s","o","r",".","s","h">>, <<"c","u","r","s","o","r",".","c","o","m">>, <<"g","e","e","k","s","f","o","r","g","e","e","k","s",".","o","r","g">>, <<"w","3","s","c","h","o","o","l","s",".","c","o","m">>,
    <<"t","u","t","o","r","i","a","l","s","p","o","i","n","t",".","c","o","m">>, <<"j","a","v","a","t","p","o","i","n","t",".","c","o","m">>, <<"p","r","o","g","r","a","m","i","z",".","c","o","m">>,
    <<"c","o","d","e","c","a","d","e","m","y",".","c","o","m">>, <<"f","r","e","e","c","o","d","e","c","a","m","p",".","o","r","g">>, <<"u","d","e","m","y",".","c","o","m">>,
    <<"c","o","u","r","s","e","r","a",".","o","r","g">>, <<"k","h","a","n","a","c","a","d","e","m","y",".","o","r","g">>, <<"e","d","x",".","o","r","g">>, <<"l","e","e","t","c","o","d","e",".","c","o","m">>,
    <<"h","a","c","k","e","r","r","a","n","k",".","c","o","m">>, <<"d","a","t","a","c","a","m","p",".","c","o","m">>, <<"e","t","l","a","b",".","a","p","p">>, <<"r","e","d","d","i","t",".","c","o","m">>,
    <<"r","e","d","d",".","i","t">>, <<"w","i","k","i","p","e","d","i","a",".","o","r","g">>, <<"w","i","k","i","m","e","d","i","a",".","o","r","g">>, <<"m","e","d","i","u","m",".","c","o","m">>,
    <<"t","u","m","b","l","r",".","c","o","m">>, <<"p","i","n","t","e","r","e","s","t",".","c","o","m">>, <<"t","i","k","t","o","k",".","c","o","m">>, <<"d","r","o","p","b","o","x",".","c","o","m">>,
    <<"a","d","o","b","e",".","c","o","m">>, <<"c","l","o","u","d","f","l","a","r","e",".","c","o","m">>, <<"g","o","d","a","d","d","y",".","c","o","m">>, <<"w","o","r","d","p","r","e","s","s",".","c","o","m">>,
    <<"w","o","r","d","p","r","e","s","s",".","o","r","g">>, <<"b","l","o","g","g","e","r",".","c","o","m">>, <<"n","o","t","i","o","n",".","s","o">>, <<"f","i","g","m","a",".","c","o","m">>,
    <<"c","a","n","v","a",".","c","o","m">>, <<"w","i","s","e",".","c","o","m">>, <<"t","r","a","n","s","f","e","r","w","i","s","e",".","c","o","m">>, <<"r","e","v","o","l","u","t",".","c","o","m">>,
    <<"x","e",".","c","o","m">>, <<"o","a","n","d","a",".","c","o","m">>, <<"p","a","y","o","n","e","e","r",".","c","o","m">>, <<"k","a","g","g","l","e",".","c","o","m">>, <<"f","t","c",".","g","o","v">>,
    <<"c","o","n","s","u","m","e","r",".","f","t","c",".","g","o","v">>, <<"n","i","h",".","g","o","v">>, <<"c","d","c",".","g","o","v">>, <<"i","r","s",".","g","o","v">>, <<"s","s","a",".","g","o","v">>,
    <<"u","s","a",".","g","o","v">>, <<"w","h","i","t","e","h","o","u","s","e",".","g","o","v">>, <<"n","a","s","a",".","g","o","v">>
}

url_shorteners == {
    <<"b","i","t",".","l","y">>, <<"t","i","n","y","u","r","l",".","c","o","m">>, <<"g","o","o",".","g","l">>, <<"t",".","c","o">>, <<"o","w",".","l","y">>,
    <<"s","h","o","r","t",".","l","i","n","k">>, <<"i","s",".","g","d">>, <<"v",".","g","d">>, <<"c","u","t","t",".","l","y">>, <<"s","h","o","r","t","u","r","l",".","a","t">>
}

\* the caps of the counting features
\* URLFeatureExtractor.__init__: the attributes of a new extractor
__init__ == [suspicious_tlds |-> suspicious_tlds,
             brand_keywords |-> brand_keywords,
             legitimate_domains |-> legitimate_domains,
             url_shorteners |-> url_shorteners]

\* the extractor on which the method in progress was called
self == extractors[this]

CapUrlLength == 150
CapNumDots == 5
CapNumHyphens == 5
CapNumDigits == 10
CapNumParams == 5
CapPathLength == 100
CapDomainLength == 50
\* _has_excessive_subdomains: more than this many labels
MaxSubdomainParts == 5

----------------------------------------------------------------------------
(* the detectors                                                           *)

\* all digits, between lo and hi of them: \d{lo,hi}
IsDigits(s, lo, hi) ==
    /\ Len(s) >= lo
    /\ Len(s) <= hi
    /\ \A i \in 1..Len(s) : s[i] \in DigitChars

\* the pattern without its closing anchor: a dotted quad at the start suffices
_has_ip_address_unanchored(hostname) ==
    LET parts == Split(hostname, ".")
    IN  IF /\ Len(parts) >= 4
           /\ \A i \in 1..3 : IsDigits(parts[i], 1, 3)
           /\ parts[4] # <<>>
           /\ parts[4][1] \in DigitChars
        THEN 1 ELSE 0

\* re.match(r"^(?:\d{1,3}\.){3}\d{1,3}$", hostname)
_has_ip_address(hostname) ==
    LET parts == Split(hostname, ".")
    IN  IF Len(parts) = 4 /\ \A i \in 1..4 : IsDigits(parts[i], 1, 3) THEN 1 ELSE 0

www_dot == <<"w","w","w",".">>

\* a whitelisted domain anywhere inside the host is accepted
_is_legitimate_domain_substring(hostname) ==
    LET hostname_clean == Replace(hostname, www_dot, <<>>)
    IN  IF \E domain \in self.legitimate_domains : Contains(hostname_clean, domain)
        THEN 1 ELSE 0

\* the port and a trailing dot are dropped before the whitelist is consulted
_is_legitimate_domain_bare_host(hostname) ==
    LET colon == Find(hostname, <<":">>)
        no_port == IF colon = 0 THEN hostname ELSE SubSeq(hostname, 1, colon - 1)
        bare == IF no_port # <<>> /\ no_port[Len(no_port)] = "."
                THEN SubSeq(no_port, 1, Len(no_port) - 1) ELSE no_port
        hostname_clean == Replace(bare, www_dot, <<>>)
    IN  IF hostname_clean \in self.legitimate_domains THEN 1
        ELSE IF \E domain \in self.legitimate_domains :
                    EndsWith(hostname_clean, <<".">> \o domain)
             THEN 1 ELSE 0

_is_legitimate_domain(hostname) ==
    LET hostname_clean == Replace(hostname, www_dot, <<>>)
    IN  IF hostname_clean \in self.legitimate_domains THEN 1
        ELSE IF \E domain \in self.legitimate_domains :
                    \/ hostname_clean = domain
                    \/ EndsWith(hostname_clean, <<".">> \o domain)
             THEN 1
             ELSE 0

\* the host compared with the entries instead of its ending
_detect_suspicious_tld_whole_host(hostname) ==
    IF \E i \in 1..Len(self.suspicious_tlds) : hostname = self.suspicious_tlds[i]
    THEN 1 ELSE 0

\* an entry anywhere inside the host counts
_detect_suspicious_tld_anywhere(hostname) ==
    IF \E i \in 1..Len(self.suspicious_tlds) : Contains(hostname, self.suspicious_tlds[i])
    THEN 1 ELSE 0

_detect_suspicious_tld(hostname) ==
    IF \E i \in 1..Len(self.suspicious_tlds) : EndsWith(hostname, self.suspicious_tlds[i])
    THEN 1 ELSE 0

legitimate_brand_domains(brand) ==
    CASE brand = <<"p","a","y","p","a","l">> -> {<<"p","a","y","p","a","l",".","c","o","m">>}
      [] brand = <<"a","m","a","z","o","n">> -> {<<"a","m","a","z","o","n",".","c","o","m">>, <<"a","m","a","z","o","n","a","w","s",".","c","o","m">>}
      [] brand = <<"m","i","c","r","o","s","o","f","t">> -> {<<"m","i","c","r","o","s","o","f","t",".","c","o","m">>, <<"l","i","v","e",".","c","o","m">>, <<"o","u","t","l","o","o","k",".","c","o","m">>, <<"o","f","f","i","c","e",".","c","o","m">>}
      [] brand = <<"g","o","o","g","l","e">> -> {<<"g","o","o","g","l","e",".","c","o","m">>, <<"g","m","a","i","l",".","c","o","m">>, <<"y","o","u","t","u","b","e",".","c","o","m">>, <<"g","o","o","g","l","e","a","p","i","s",".","c","o","m">>}
      [] brand = <<"a","p","p","l","e">> -> {<<"a","p","p","l","e",".","c","o","m">>, <<"i","c","l","o","u","d",".","c","o","m">>}
      [] brand = <<"f","a","c","e","b","o","o","k">> -> {<<"f","a","c","e","b","o","o","k",".","c","o","m">>, <<"f","b",".","c","o","m">>}
      [] brand = <<"n","e","t","f","l","i","x">> -> {<<"n","e","t","f","l","i","x",".","c","o","m">>}
      [] brand = <<"w","h","a","t","s","a","p","p">> -> {<<"w","h","a","t","s","a","p","p",".","c","o","m">>, <<"w","a",".","m","e">>}
      [] brand = <<"i","n","s","t","a","g","r","a","m">> -> {<<"i","n","s","t","a","g","r","a","m",".","c","o","m">>}

suspicious_indicators(brand) ==
    {<<"-">> \o brand, brand \o <<"-">>, brand \o <<"s","e","c","u","r","i","t","y">>,
     brand \o <<"v","e","r","i","f","y">>, brand \o <<"s","u","s","p","e","n","d","e","d">>, brand \o <<"a","l","e","r","t">>}

\* the brand and its indicators looked up in the whole URL instead of the host
_detect_brand_spoofing_in_full_url(hostname, full_url) ==
    IF _is_legitimate_domain(hostname) = 1 THEN 0
    ELSE IF \E b \in 1..Len(self.brand_keywords) :
                LET brand == self.brand_keywords[b]
                IN  /\ Contains(full_url, brand)
                    /\ ~ \E legit_domain \in legitimate_brand_domains(brand) :
                            \/ hostname = legit_domain
                            \/ EndsWith(hostname, <<".">> \o legit_domain)
                    /\ \/ \E indicator \in suspicious_indicators(brand) :
                              Contains(full_url, indicator)
                       \/ _detect_suspicious_tld(hostname) = 1
         THEN 1
         ELSE 0

\* full_url is a parameter the code never reads
_detect_brand_spoofing(hostname, full_url) ==
    IF _is_legitimate_domain(hostname) = 1 THEN 0
    ELSE IF \E b \in 1..Len(self.brand_keywords) :
                LET brand == self.brand_keywords[b]
                IN  /\ Contains(hostname, brand)
                    /\ ~ \E legit_domain \in legitimate_brand_domains(brand) :
                            \/ hostname = legit_domain
                            \/ EndsWith(hostname, <<".">> \o legit_domain)
                    /\ \/ \E indicator \in suspicious_indicators(brand) :
                              Contains(hostname, indicator)
                       \/ _detect_suspicious_tld(hostname) = 1
         THEN 1
         ELSE 0

numbered_prefixes == {<<"w","e","b">>, <<"a","p","p">>, <<"m","a","i","l">>, <<"c","d","n">>, <<"a","p","i">>, <<"s","e","r","v","e","r">>, <<"h","o","s","t">>, <<"n","o","d","e">>}

\* re.match(r'^(web|app|mail|cdn|api|server|host|node)\d+\.', hostname)
HasNumberedPrefix(hostname) ==
    \E w \in numbered_prefixes :
        /\ StartsWith(hostname, w)
        /\ \E j \in (Len(w) + 2)..Len(hostname) :
              /\ hostname[j] = "."
              /\ \A k \in (Len(w) + 1)..(j - 1) : hostname[k] \in DigitChars

\* the fixed-length look-alike patterns, one character class per position
\* (re.IGNORECASE: the classes are applied to the lower-cased character)
lookalike_patterns == {
    <<{"p"}, {"a","4","@"}, {"y"}, {"p"}, {"a","4","@"}, {"l"}>>,
    <<{"g"}, {"o","0","@"}, {"o","0","@"}, {"g"}, {"l"}, {"e"}>>,
    <<{"m"}, {"i"}, {"c"}, {"r"}, {"o","0"}, {"s"}, {"o","0"}, {"f"}, {"t"}>>,
    <<{"f"}, {"a"}, {"c"}, {"e","3"}, {"b"}, {"o","0"}, {"o","0"}, {"k"}>>,
    <<{"n"}, {"e","3"}, {"t"}, {"f"}, {"l"}, {"i","1"}, {"x"}>>
}

_detect_character_substitution(hostname) ==
    IF _is_legitimate_domain(hostname) = 1 THEN 0
    ELSE IF HasNumberedPrefix(hostname) THEN 0
    ELSE LET domain_parts == Split(hostname, ".")
         IN  IF Len(domain_parts) < 2 THEN 0
             ELSE LET main_domain == Lower(domain_parts[Len(domain_parts) - 1])
                  IN  IF \/ \E pattern \in lookalike_patterns : SearchClasses(main_domain, pattern)
                         \/ SearchRun(main_domain, "0")
                         \/ SearchRun(main_domain, "4")
                      THEN 1 ELSE 0

domain_suspicious_keywords ==
    {<<"v","e","r","i","f","y">>, <<"s","u","s","p","e","n","d","e","d">>, <<"l","o","c","k","e","d">>, <<"u","r","g","e","n","t">>, <<"a","l","e","r","t">>,
     <<"w","a","r","n","i","n","g">>, <<"c","o","n","f","i","r","m">>, <<"v","a","l","i","d","a","t","e">>, <<"f","a","k","e">>, <<"d","e","a","l">>}

path_suspicious_keywords == {<<"s","u","s","p","e","n","d">>, <<"l","o","c","k","e","d">>, <<"u","r","g","e","n","t">>, <<"i","m","m","e","d","i","a","t","e">>}

\* path = full_url.split(hostname)[-1] if hostname in full_url else ''
KeywordPath(full_url, hostname) ==
    IF Contains(full_url, hostname) THEN SplitLast(full_url, hostname) ELSE <<>>

\* a path keyword counts without any other signal
_detect_suspicious_keywords_path_alone(full_url, hostname) ==
    IF _is_legitimate_domain(hostname) = 1 THEN 0
    ELSE IF \E keyword \in domain_suspicious_keywords : Contains(hostname, keyword) THEN 1
    ELSE LET path == KeywordPath(full_url, hostname)
         IN  IF \E keyword \in path_suspicious_keywords : Contains(path, keyword)
             THEN 1 ELSE 0

_detect_suspicious_keywords(full_url, hostname) ==
    IF _is_legitimate_domain(hostname) = 1 THEN 0
    ELSE IF \E keyword \in domain_suspicious_keywords : Contains(hostname, keyword) THEN 1
    ELSE LET path == KeywordPath(full_url, hostname)
             keyword_in_path == \E keyword \in path_suspicious_keywords : Contains(path, keyword)
         IN  IF /\ keyword_in_path
                /\ \/ _detect_suspicious_tld(hostname) = 1
                   \/ _has_ip_address(hostname) = 1
                   \/ Contains(full_url, <<"@">>)
             THEN 1 ELSE 0

_is_url_shortener(hostname) ==
    LET hostname_clean == Replace(hostname, www_dot, <<>>)
    IN  IF hostname_clean \in self.url_shorteners THEN 1 ELSE 0

\* five parts already count as excessive
_has_excessive_subdomains_at_least(hostname) ==
    LET parts == Split(hostname, ".")
    IN  IF Len(parts) >= MaxSubdomainParts THEN 1 ELSE 0

\* the number of parts is handed back instead of a flag
_has_excessive_subdomains_count(hostname) ==
    LET parts == Split(hostname, ".")
    IN  IF Len(parts) > MaxSubdomainParts THEN Len(parts) ELSE 0

_has_excessive_subdomains(hostname) ==
    LET parts == Split(hostname, ".")
    IN  IF Len(parts) > MaxSubdomainParts THEN 1 ELSE 0

brand_action_combos == {
    <<<<"p","a","y","p","a","l">>, <<"v","e","r","i","f","y">>>>, <<<<"p","a","y","p","a","l">>, <<"s","e","c","u","r","i","t","y">>>>, <<<<"p","a","y","p","a","l">>, <<"s","u","s","p","e","n","d","e","d">>>>,
    <<<<"a","m","a","z","o","n">>, <<"v","e","r","i","f","y">>>>, <<<<"a","m","a","z","o","n">>, <<"s","u","s","p","e","n","d","e","d">>>>, <<<<"a","m","a","z","o","n">>, <<"u","p","d","a","t","e">>>>,
    <<<<"m","i","c","r","o","s","o","f","t">>, <<"s","e","c","u","r","i","t","y">>>>, <<<<"m","i","c","r","o","s","o","f","t">>, <<"v","e","r","i","f","y">>>>,
    <<<<"g","o","o","g","l","e">>, <<"v","e","r","i","f","y">>>>, <<<<"g","o","o","g","l","e">>, <<"s","u","s","p","e","n","d","e","d">>>>,
    <<<<"a","p","p","l","e">>, <<"v","e","r","i","f","y">>>>,
    <<<<"w","h","a","t","s","a","p","p">>, <<"v","e","r","i","f","y">>>>, <<<<"w","h","a","t","s","a","p","p">>, <<"s","u","s","p","e","n","d","e","d">>>>, <<<<"w","h","a","t","s","a","p","p">>, <<"b","a","n","n","e","d">>>>,
    <<<<"a","c","c","o","u","n","t">>, <<"s","u","s","p","e","n","d","e","d">>>>, <<<<"a","c","c","o","u","n","t">>, <<"l","o","c","k","e","d">>>>,
    <<<<"s","e","c","u","r","i","t","y">>, <<"a","l","e","r","t">>>>, <<<<"u","r","g","e","n","t">>, <<"v","e","r","i","f","y">>>>, <<<<"c","o","n","f","i","r","m">>, <<"i","d","e","n","t","i","t","y">>>>
}

\* the whitelist check left out
_detect_suspicious_keyword_combinations_unvetoed(full_url, hostname) ==
    IF \E combo \in brand_action_combos :
          Contains(full_url, combo[1]) /\ Contains(full_url, combo[2])
    THEN 1 ELSE 0

_detect_suspicious_keyword_combinations(full_url, hostname) ==
    IF _is_legitimate_domain(hostname) = 1 THEN 0
    ELSE IF \E combo \in brand_action_combos :
                Contains(full_url, combo[1]) /\ Contains(full_url, combo[2])
         THEN 1 ELSE 0

----------------------------------------------------------------------------
(* URLFeatureExtractor.extract_features                                    *)

SchemaFields == {"url_length", "num_dots", "num_hyphens", "num_digits",
                 "has_at_symbol", "num_params", "has_ip", "is_https",
                 "path_length", "domain_length", "has_brand_spoofing",
                 "has_suspicious_tld", "has_character_substitution",
                 "has_suspicious_keywords", "is_url_shortener",
                 "excessive_subdomains", "suspicious_keyword_combo"}

_get_default_features ==
    [url_length |-> 0, num_dots |-> 0, num_hyphens |-> 0, num_digits |-> 0,
     has_at_symbol |-> 0, num_params |-> 0, has_ip |-> 0, is_https |-> 0,
     path_length |-> 0, domain_length |-> 0, has_brand_spoofing |-> 0,
     has_suspicious_tld |-> 0, has_character_substitution |-> 0,
     has_suspicious_keywords |-> 0, is_url_shortener |-> 0,
     excessive_subdomains |-> 0, suspicious_keyword_combo |-> 0]

\* the detectors extract_features calls, by the field each one fills
Detectors == {"has_ip", "has_brand_spoofing", "has_suspicious_tld",
              "has_character_substitution", "has_suspicious_keywords",
              "is_url_shortener", "excessive_subdomains", "suspicious_keyword_combo"}

NoFault == "none"
NoFeatures == [none |-> 0]
NoFrame == [none |-> 0]
NoRetrain == [none |-> 0]
NoRequest == [none |-> 0]
NoDataset == [none |-> 0]

\* an argument: a str (its characters in s) or another object, whose truth
\* value is "truthy", "falsy" or "raises" (bool() of e.g. a numpy array)
Str(s) == [isstr |-> TRUE, truth |-> IF s = <<>> THEN "falsy" ELSE "truthy", s |-> s]
NonStr(t) == [isstr |-> FALSE, truth |-> t, s |-> <<>>]

Return(v) == [exc |-> FALSE, val |-> v]
Raise == [exc |-> TRUE, val |-> NoFeatures]

\* the keys of the dict literal of _get_default_features, as written, with
\* the last two exchanged
default_features_keys_reordered ==
    <<"url_length", "num_dots", "num_hyphens", "num_digits", "has_at_symbol",
      "num_params", "has_ip", "is_https", "path_length", "domain_length",
      "has_brand_spoofing", "has_suspicious_tld", "has_character_substitution",
      "has_suspicious_keywords", "is_url_shortener", "suspicious_keyword_combo",
      "excessive_subdomains">>

\* the keys of the dict literal of _get_default_features, as written
default_features_keys ==
    <<"url_length", "num_dots", "num_hyphens", "num_digits", "has_at_symbol",
      "num_params", "has_ip", "is_https", "path_length", "domain_length",
      "has_brand_spoofing", "has_suspicious_tld", "has_character_substitution",
      "has_suspicious_keywords", "is_url_shortener", "excessive_subdomains",
      "suspicious_keyword_combo">>

\* the keys of features: those of its dict literal, then one per assignment
features_keys ==
    <<"url_length", "num_dots", "num_hyphens", "num_digits", "has_at_symbol",
      "num_params", "has_ip", "is_https", "path_length", "domain_length">>
    \o <<"has_brand_spoofing", "has_suspicious_tld", "has_character_substitution",
         "has_suspicious_keywords">>
    \o <<"is_url_shortener", "excessive_subdomains">>
    \o <<"suspicious_keyword_combo">>

\* the features dict built on a successful parse
BuildFeatures(u, parsed) ==
    LET hostname == Lower(parsed.netloc)
        full_url == Lower(u)
    IN  [url_length |-> min(Len(u), CapUrlLength),
         num_dots |-> min(Count(u, "."), CapNumDots),
         num_hyphens |-> min(Count(u, "-"), CapNumHyphens),
         num_digits |-> min(Cardinality({i \in 1..Len(u) : u[i] \in DigitChars}), CapNumDigits),
         has_at_symbol |-> IF Contains(u, <<"@">>) THEN 1 ELSE 0,
         num_params |-> min(Count(u, "="), CapNumParams),
         has_ip |-> _has_ip_address(hostname),
         is_https |-> IF parsed.scheme = <<"h","t","t","p","s">> THEN 1 ELSE 0,
         path_length |-> min(Len(parsed.path), CapPathLength),
         domain_length |-> min(Len(parsed.netloc), CapDomainLength),
         has_brand_spoofing |-> _detect_brand_spoofing(hostname, full_url),
         has_suspicious_tld |-> _detect_suspicious_tld(hostname),
         has_character_substitution |-> _detect_character_substitution(hostname),
         has_suspicious_keywords |-> _detect_suspicious_keywords(full_url, hostname),
         is_url_shortener |-> _is_url_shortener(hostname),
         excessive_subdomains |-> _has_excessive_subdomains(hostname),
         suspicious_keyword_combo |-> _detect_suspicious_keyword_combinations(full_url, hostname)]

\* the host-less branch answers with the length of the URL filled in
TryBody_hostless_keeps_length(u, f) ==
    IF u.truth = "raises" THEN Raise
    ELSE IF u.truth = "falsy" \/ ~u.isstr THEN Return(_get_default_features)
    ELSE LET parsed == urlparse(u.s)
         IN  IF parsed.raised THEN Raise
             ELSE IF parsed.netloc = <<>>
                  THEN Return([_get_default_features EXCEPT !.url_length = min(Len(u.s), CapUrlLength)])
             ELSE IF f # NoFault THEN Raise
             ELSE Return(BuildFeatures(u.s, parsed))

\* each detector call wrapped in its own handler that answers 0
TryBody_detector_handlers(u, f) ==
    IF u.truth = "raises" THEN Raise
    ELSE IF u.truth = "falsy" \/ ~u.isstr THEN Return(_get_default_features)
    ELSE LET parsed == urlparse(u.s)
         IN  IF parsed.raised THEN Raise
             ELSE IF parsed.netloc = <<>> THEN Return(_get_default_features)
             ELSE IF f # NoFault THEN Return([BuildFeatures(u.s, parsed) EXCEPT ![f] = 0])
             ELSE Return(BuildFeatures(u.s, parsed))

\* the body of the try statement; f names the detector that raises, if any
TryBody(u, f) ==
    IF u.truth = "raises" THEN Raise
    ELSE IF u.truth = "falsy" \/ ~u.isstr THEN Return(_get_default_features)
    ELSE LET parsed == urlparse(u.s)
         IN  IF parsed.raised THEN Raise
             ELSE IF parsed.netloc = <<>> THEN Return(_get_default_features)
             ELSE IF f # NoFault THEN Raise
             ELSE Return(BuildFeatures(u.s, parsed))

\* no except clause: the exception reaches the caller
extract_features_without_except(u, f) == TryBody(u, f)

\* a URL holding '@' is answered with the default features
extract_features_default_on_at(u, f) ==
    LET r == TryBody(u, f)
    IN  IF r.exc \/ Contains(u.s, <<"@">>) THEN Return(_get_default_features) ELSE r

\* try: ... except Exception: log and return the default features
extract_features(u, f) ==
    LET r == TryBody(u, f)
    IN  IF r.exc THEN Return(_get_default_features) ELSE r

\* list(extract_features(u)): features is returned only when no early return
\* and no exception came before, the default dict otherwise
extract_features_keys(u, f) ==
    IF u.truth = "raises" \/ u.truth = "falsy" \/ ~u.isstr THEN default_features_keys
    ELSE LET parsed == urlparse(u.s)
         IN  IF parsed.raised \/ parsed.netloc = <<>> \/ f # NoFault
             THEN default_features_keys
             ELSE features_keys
----------------------------------------------------------------------------
(* the arguments the callers supply: URLs put together from schemes,       *)
(* hosts and tails, over letters, digits, URL punctuation and one          *)
(* non-ASCII letter; no white space or control characters                  *)

\* a host prefix is repeated at most MaxPrefix times, a filler at most
\* MaxRepeat times
MaxPrefix == 1
MaxRepeat == 2

RECURSIVE Rep(_, _)
Rep(s, n) == IF n = 0 THEN <<>> ELSE s \o Rep(s, n - 1)

Schemes == {<<"h","t","t","p","s",":","/","/">>, <<"h","t","t","p",":","/","/">>, <<>>}

HostPrefixes == {<<"W","W","W",".">>, <<"v","e","r","i","f","y">>, <<"a","l","e","r","t",".">>, <<"p","a","y","p","a","l","-">>, <<"w","e","b","2",".">>, <<"a",".","b",".","c",".","d",".">>, <<"u","s","e","r","@">>}

\* a core is written in two halves, so that "www." can also be put between them
HostCores == {<<<<"g","o","o","g","l","e",".">>, <<"c","o","m">>>>, <<<<"t",".">>, <<"c","o">>>>, <<<<"b","i","t",".">>, <<"l","y">>>>,
              <<<<"p","a","y","p","a","l",".">>, <<"c","o","m">>>>, <<<<"p","a","y","p","a","l">>, <<>>>>,
              <<<<"w","h","a","t","s","a","p","p","-">>, <<"v","e","r","i","f","y">>>>, <<<<"p","4","y","p","a","l">>, <<>>>>,
              <<<<"1","9","2",".","1","6","8",".">>, <<"1",".","1","0","0">>>>, <<<<"1","2","3",".","4","5","6",".","7","8","9",".","0","1","2">>, <<>>>>,
              <<<<"e","v","i","l">>, <<>>>>, <<<<"a","m","a","z","o","n">>, <<"s","e","c","u","r","i","t","y">>>>,
              <<<<"e","x","a","m","p","l","e",".">>, <<"c","o","m">>>>}

WwwForms(c) ==
    {c[1] \o c[2], www_dot \o c[1] \o c[2]}
    \cup (IF c[2] = <<>> THEN {} ELSE {c[1] \o www_dot \o c[2]})

HostSuffixes == {<<>>, <<".","t","k">>, <<".","e","v","i","l",".","c","o","m">>, <<":","4","4","3">>, <<".">>}

Hosts == {Rep(p, k) \o w \o s :
             p \in HostPrefixes, k \in 0..MaxPrefix,
             w \in UNION {WwwForms(c) : c \in HostCores}, s \in HostSuffixes}

PathFiller == <<"/","d","o","c","s","-","v","2","/","a","-","b","-","c","/","0","1","2","3","4","5","6","7","8","9","/","r","e","l","e","a","s","e","-","n","o","t","e","s","/","s","o","m","e","-","l","o","n","g","-","p","a","g","e","-","n","a","m","e","-","2","0","2","4",".","h","t","m","l">>
QueryFiller == <<"?","a","=","1","&","b","=","2","&","c","=","3">>

Tails == {<<>>, <<"/">>, <<"/","l","o","g","i","n">>, <<"/","p","a","y","p","a","l","-","l","o","g","i","n">>, <<"/","u","r","g","e","n","t">>, <<"/","s","i","g","n","i","n","/","v","e","r","i","f","y">>,
          <<"/","a","c","c","o","u","n","t","/","s","u","s","p","e","n","d","e","d">>, <<"/","s","e","c","u","r","i","t","y","?","a","l","e","r","t","=","1">>, <<"?","q","=","i","m","m","e","d","i","a","t","e">>,
          <<"/","x",";","t","y","p","e","=","a","/","c","a","f","é">>, <<"/","a","#","l","o","c","k","e","d">>}
         \cup {Rep(PathFiller, k) \o Rep(QueryFiller, j) : k \in 0..MaxRepeat, j \in 0..MaxRepeat}

\* the tails tried after host h: the fixed ones, and one that names h again
TailsFor(h) == Tails \cup {<<"/","u","r","g","e","n","t","/">> \o Lower(h) \o <<"/","x">>}

FewHosts == {<<"g","o","o","g","l","e",".","c","o","m">>, <<"s","u","p","p","o","r","t",".","g","o","o","g","l","e",".","c","o","m">>, <<"e","v","i","l",".","t","k">>, <<"1","9","2",".","1","6","8",".","1",".","1","0","0">>,
             <<"g","o","o","g","l","e",".","c","o","m","@","m","a","l","i","c","i","o","u","s","-","s","i","t","e",".","c","o","m">>, <<"w","h","a","t","s","a","p","p","-","v","e","r","i","f","y",".","t","k">>, <<"b","i","t",".","l","y">>,
             <<"E","x","a","m","p","l","e",".","C","O","M">>,
             <<"s","e","c","u","r","e","-","l","o","g","i","n",".","a","c","c","o","u","n","t","-","u","p","d","a","t","e",".","a",".","b",".","c",".","d",".","e","x","a","m","p","l","e","-","s","e","r","v","i","c","e",".","c","o","m">>}

\* every host under https with three tails
HostBattery == {<<"h","t","t","p","s",":","/","/">> \o h \o t :
                   h \in Hosts, t \in {<<>>, <<"/","l","o","g","i","n">>, <<"/","v","e","r","i","f","y","-","u","r","g","e","n","t">>}}

\* every scheme and tail on a few hosts
TailBattery ==
    UNION {{sc \o h \o t : sc \in Schemes, t \in TailsFor(h)} : h \in FewHosts}

\* strings urlparse finds no host in, or raises on
Malformed == {<<>>, <<"[">>, <<"h","t","t","p",":","/","/","[",":",":","1","/","x">>, <<"h","t","t","p","s",":","/","/","a","]","b","/","x">>, <<"h","t","t","p","s",":","/","/","/","l","o","g","i","n">>,
              <<"h","t","t","p","s",":","/","/">>, <<"h","t","t","p","s",":">>, <<"m","a","i","l","t","o",":","u","s","e","r","@","e","x","a","m","p","l","e",".","c","o","m">>, <<"1","h","t","t","p",":","/","/","e","v","i","l",".","t","k","/">>}

\* every pair of the combination table: as a hyphenated host under each
\* suspicious TLD, in the path in reverse order, and its first member alone
ComboBattery ==
    {<<"h","t","t","p","s",":","/","/">> \o c[1] \o <<"-">> \o c[2] \o suspicious_tlds[i] :
        c \in brand_action_combos, i \in 1..Len(suspicious_tlds)}
    \cup {<<"h","t","t","p","s",":","/","/","e","x","a","m","p","l","e",".","o","r","g","/">> \o c[2] \o <<"/">> \o c[1] : c \in brand_action_combos}
    \cup {<<"h","t","t","p","s",":","/","/","e","x","a","m","p","l","e",".","o","r","g","/">> \o c[1] : c \in brand_action_combos}

\* single URLs: the scenarios of the documentation and hosts near an IP
\* literal, a shortener or a suspicious TLD
MiscUrls == {<<"h","t","t","p","s",":","/","/","w","e","b",".","w","h","a","t","s","a","p","p",".","c","o","m">>, <<"h","t","t","p","s",":","/","/","b","i","t",".","l","y","/","x">>, <<"h","t","t","p","s",":","/","/","b","i","t",".","l","y",".","e","v","i","l",".","c","o","m","/","x">>,
             <<"h","t","t","p","s",":","/","/","w","w","w",".","b","i","t",".","l","y","/","x">>, <<"h","t","t","p","s",":","/","/","w","w","w",".","w","w","w",".","b","i","t",".","l","y","/","x">>, <<"h","t","t","p","s",":","/","/","c","d","n",".","b","i","t",".","l","y","/","x">>,
             <<"h","t","t","p","s",":","/","/","E","x","a","m","p","l","e",".","o","r","g","/","U","R","G","E","N","T","/","V","e","r","i","f","y">>, <<"h","t","t","p","s",":","/","/","e","v","i","l",".","t","k",".","e","x","a","m","p","l","e",".","o","r","g","/">>,
             <<"h","t","t","p","s",":","/","/","t","k","/">>, <<"h","t","t","p","s",":","/","/","e","v","i","l","t","k","/">>,
             <<"h","t","t","p",":","/","/","1",".","2",".","3",".","4","/">>, <<"h","t","t","p",":","/","/","1",".","2",".","3",".","4",":","8","0","/">>, <<"h","t","t","p",":","/","/","1",".","2",".","3","/">>,
             <<"h","t","t","p",":","/","/","1",".","2",".","3",".","4",".","5","/">>, <<"h","t","t","p",":","/","/","1","2","3","4",".","5",".","6",".","7","/">>, <<"h","t","t","p",":","/","/","1",".","2",".","3",".","4","a","/">>,
             <<"h","t","t","p",":","/","/","a","1",".","2",".","3",".","4","/">>, <<"h","t","t","p",":","/","/","1",".",".","3",".","4","/">>, <<"h","t","t","p",":","/","/","9","9","9",".","9","9","9",".","9","9","9",".","9","9","9","/">>,
             <<"h","t","t","p",":","/","/","x",".","1",".","2",".","3",".","4",".","e","x","a","m","p","l","e",".","o","r","g","/">>,
             <<"h","t","t","p","s",":","/","/","g","0","0","g","l","e",".","c","o","m">>, <<"h","t","t","p","s",":","/","/","w","e","b","2",".","g","0","0","g","l","e",".","c","o","m","/">>, <<"h","t","t","p","s",":","/","/","m","i","c","r","0","s","o","f","t",".","c","o","m">>,
             <<"h","t","t","p","s",":","/","/","f","a","c","e","b","0","0","k",".","c","o","m">>, <<"h","t","t","p","s",":","/","/","n","3","t","f","l","i","x",".","c","o","m","/","l","o","g","i","n">>, <<"h","t","t","p","s",":","/","/","g","o","0","0","g","l","e",".","c","o","m">>,
             <<"h","t","t","p","s",":","/","/","a","m","4","4","z","n",".","c","o","m">>, <<"h","t","t","p","s",":","/","/","a","0","0","b",".","n","e","t">>, <<"h","t","t","p","s",":","/","/","a","0","0",".","n","e","t">>,
             <<"h","t","t","p","s",":","/","/","a","0","b",".","n","e","t">>, <<"h","t","t","p","s",":","/","/","p","4","y","p","a","l">>, <<"h","t","t","p","s",":","/","/","p","4","y","p","a","l",".","e","v","i","l",".","c","o","m">>,
             <<"h","t","t","p","s",":","/","/","w","e","b",".","p","4","y","p","a","l",".","c","o","m">>, <<"h","t","t","p","s",":","/","/","w","e","b","2","x",".","p","4","y","p","a","l",".","c","o","m">>,
             <<"h","t","t","p","s",":","/","/","m","y","w","e","b","2",".","p","4","y","p","a","l",".","c","o","m">>, <<"h","t","t","p","s",":","/","/","n","o","d","e","1","7",".","p","@","y","p","a","l",".","c","o","m">>,
             <<"h","t","t","p","s",":","/","/","P","4","Y","P","A","L",".","c","o","m">>, <<"h","t","t","p","s",":","/","/","s","e","c","u","r","e",".","p","4","y","p","a","l",".","c","o","m",":","8","4","4","3","/">>}

StrInputs == HostBattery \cup TailBattery \cup ComboBattery \cup MiscUrls \cup Malformed

NonStrInputs == {NonStr("falsy"), NonStr("truthy"), NonStr("raises")}

Inputs == {Str(s) : s \in StrInputs} \cup NonStrInputs

----------------------------------------------------------------------------
(* the state machine: a caller has invoked extract_features(url); the call *)
(* runs to its end and hands its result back                               *)

\* extractor = URLFeatureExtractor(); extractor.extract_features(url)
InitWith(S, F) ==
    /\ url \in S
    /\ fault \in F
    /\ pc = "called"
    /\ extractors = <<__init__>>
    /\ this = 1
    /\ history = <<>>
    /\ retrain = NoRetrain
    /\ request = NoRequest
    /\ dataset = NoDataset
    /\ threads = <<>>
    /\ frame = NoFrame
    /\ columns = <<>>
    /\ features = NoFeatures

\* the call whitelists the host it has just looked at
ExtractFeatures_learning ==
    /\ pc = "called"
    /\ LET r == extract_features(url, fault)
       IN  /\ pc' = IF r.exc THEN "raised" ELSE "returned"
           /\ features' = r.val
    /\ columns' = extract_features_keys(url, fault)
    /\ extractors' = IF url.isstr /\ ~urlparse(url.s).raised
                      THEN [extractors EXCEPT ![this].legitimate_domains =
                                @ \cup {Lower(urlparse(url.s).netloc)}]
                      ELSE extractors
    /\ UNCHANGED <<url, fault, this, history, frame, threads, retrain, request, dataset>>

ExtractFeatures ==
    /\ pc = "called"
    /\ LET r == extract_features(url, fault)
       IN  /\ pc' = IF r.exc THEN "raised" ELSE "returned"
           /\ features' = r.val
    /\ columns' = extract_features_keys(url, fault)
    /\ UNCHANGED <<url, fault, extractors, this, history, frame, threads, retrain, request, dataset>>

Init == InitWith(Inputs, {NoFault})

Next == ExtractFeatures

Spec == Init /\ [][Next]_vars

\* the same calls, with an exception raised inside one detector
FaultInputs == {Str(s) : s \in TailBattery}

InitFault == InitWith(FaultInputs, Detectors \cup {NoFault})

SpecFault == InitFault /\ [][Next]_vars

----------------------------------------------------------------------------
(* a caller that calls again: on the same extractor, on another one, on    *)
(* the same input or on another one (the loops of process_urls_batch and   *)
(* of the module-level extract_features, which construct one extractor     *)
(* per batch)                                                              *)

MaxCalls == 3

MaxExtractors == 2

RepeatInputs ==
    {Str(s) : s \in {<<"h","t","t","p","s",":","/","/","w","h","a","t","s","a","p","p","-","v","e","r","i","f","y",".","t","k">>, <<"h","t","t","p","s",":","/","/","w","e","b",".","w","h","a","t","s","a","p","p",".","c","o","m">>,
                      <<"h","t","t","p",":","/","/","1","9","2",".","1","6","8",".","1",".","1","0","0","/","p","a","y","p","a","l","-","l","o","g","i","n">>, <<"h","t","t","p","s",":","/","/","b","i","t",".","w","w","w",".","l","y","/","u","r","g","e","n","t">>,
                      <<"h","t","t","p",":","/","/","[",":",":","1","/","x">>, <<>>}}
    \cup {NonStr("NoneType")}

\* extractor = URLFeatureExtractor()
Construct ==
    /\ pc = "returned"
    /\ Len(extractors) < MaxExtractors
    /\ extractors' = Append(extractors, __init__)
    /\ UNCHANGED <<url, fault, pc, this, history, frame, columns, features, threads, retrain, request, dataset>>

\* features_list.append(features), then the next extractor.extract_features(url)
Call ==
    /\ pc = "returned"
    /\ Len(history) + 1 < MaxCalls
    /\ history' = Append(history, [url |-> url, this |-> this, features |-> features])
    /\ url' \in RepeatInputs
    /\ this' \in 1..Len(extractors)
    /\ pc' = "called"
    /\ features' = NoFeatures
    /\ columns' = <<>>
    /\ UNCHANGED <<fault, extractors, frame, threads, retrain, request, dataset>>

InitRepeat == InitWith(RepeatInputs, {NoFault})

NextRepeat == ExtractFeatures \/ Construct \/ Call

SpecRepeat == InitRepeat /\ [][NextRepeat]_vars

----------------------------------------------------------------------------
(* process_urls_batch(urls, labels)                                        *)

MaxBatch == 3

\* what a batch is made of: a URL with a host, the same URL with an
\* exception raised inside a detector, a string urlparse rejects, a
\* whitelisted host, and an object that is no str
BatchItems ==
    {[url |-> Str(<<"h","t","t","p","s",":","/","/","w","h","a","t","s","a","p","p","-","v","e","r","i","f","y",".","t","k">>), fault |-> NoFault],
     [url |-> Str(<<"h","t","t","p","s",":","/","/","w","h","a","t","s","a","p","p","-","v","e","r","i","f","y",".","t","k">>), fault |-> "has_ip"],
     [url |-> Str(<<"h","t","t","p",":","/","/","[",":",":","1","/","x">>), fault |-> NoFault],
     [url |-> NonStr("falsy"), fault |-> NoFault]}

\* the call alone, on a new extractor: what row i is compared with
Alone(item) == item @@ [alone |-> extract_features(item.url, item.fault).val]

\* extractor = URLFeatureExtractor(); features_list = []
InitBatch ==
    /\ extractors = <<__init__>>
    /\ this = 1
    /\ \E n \in 0..MaxBatch :
          \E us \in [1..n -> {Alone(item) : item \in BatchItems}], ls \in [1..n -> {0, 1}] :
              frame = [urls |-> us, labels |-> ls, i |-> 0,
                       features_list |-> <<>>, returned |-> FALSE, df |-> <<>>]
    /\ url = Str(<<>>)
    /\ fault = NoFault
    /\ pc = "idle"
    /\ history = <<>>
    /\ retrain = NoRetrain
    /\ request = NoRequest
    /\ dataset = NoDataset
    /\ threads = <<>>
    /\ columns = <<>>
    /\ features = NoFeatures

\* for i, url in enumerate(urls): extractor.extract_features(url)
BatchCall ==
    /\ frame # NoFrame
    /\ pc = "idle"
    /\ frame.i < Len(frame.urls)
    /\ url' = frame.urls[frame.i + 1].url
    /\ fault' = frame.urls[frame.i + 1].fault
    /\ pc' = "called"
    /\ features' = NoFeatures
    /\ columns' = <<>>
    /\ UNCHANGED <<extractors, this, history, frame, threads, retrain, request, dataset>>

\* the rows are collected in front of the earlier ones
BatchAppend_prepend ==
    /\ frame # NoFrame
    /\ pc = "returned"
    /\ frame' = [frame EXCEPT
                    !.features_list = <<features @@ [label |-> frame.labels[frame.i + 1]]>> \o @,
                    !.i = @ + 1]
    /\ pc' = "idle"
    /\ UNCHANGED <<url, fault, extractors, this, history, columns, features, threads, retrain, request, dataset>>

\* features['label'] = labels[i]; features_list.append(features)
BatchAppend ==
    /\ frame # NoFrame
    /\ pc = "returned"
    /\ frame' = [frame EXCEPT
                    !.features_list = Append(@, features @@ [label |-> frame.labels[frame.i + 1]]),
                    !.i = @ + 1]
    /\ pc' = "idle"
    /\ UNCHANGED <<url, fault, extractors, this, history, columns, features, threads, retrain, request, dataset>>

\* return pd.DataFrame(features_list): one row per collected dict
BatchReturn ==
    /\ frame # NoFrame
    /\ pc = "idle"
    /\ frame.i = Len(frame.urls)
    /\ ~frame.returned
    /\ frame' = [frame EXCEPT !.returned = TRUE, !.df = frame.features_list]
    /\ UNCHANGED <<url, fault, pc, extractors, this, history, columns, features, threads, retrain, request, dataset>>

NextBatch == BatchCall \/ ExtractFeatures \/ BatchAppend \/ BatchReturn

SpecBatch == InitBatch /\ [][NextBatch]_vars

----------------------------------------------------------------------------
(* extract_features running in several threads on one shared extractor;    *)
(* a thread can be preempted between any two detector calls                *)

MaxThreads == 2

ThreadInputs ==
    {Str(s) : s \in {<<"h","t","t","p","s",":","/","/","w","h","a","t","s","a","p","p","-","v","e","r","i","f","y",".","t","k">>, <<"h","t","t","p","s",":","/","/","w","e","b",".","w","h","a","t","s","a","p","p",".","c","o","m","/","v","e","r","i","f","y">>,
                      <<"h","t","t","p",":","/","/","[",":",":","1","/","x">>}}

\* the fields the detectors of lines 340-350 fill, one per call
DetectorKeys == SubSeq(features_keys, 11, 17)

InitThreads ==
    /\ extractors = <<__init__>>
    /\ this = 1
    /\ threads \in [1..MaxThreads ->
                      {[url |-> u, pc |-> "called", k |-> 0, features |-> NoFeatures,
                        alone |-> extract_features(u, NoFault).val] : u \in ThreadInputs}]
    /\ url = Str(<<>>)
    /\ fault = NoFault
    /\ pc = "idle"
    /\ history = <<>>
    /\ retrain = NoRetrain
    /\ request = NoRequest
    /\ dataset = NoDataset
    /\ frame = NoFrame
    /\ columns = <<>>
    /\ features = NoFeatures

\* lines 326-337: the dict literal
BasicFeatures(u, parsed) ==
    [url_length |-> min(Len(u), CapUrlLength),
     num_dots |-> min(Count(u, "."), CapNumDots),
     num_hyphens |-> min(Count(u, "-"), CapNumHyphens),
     num_digits |-> min(Cardinality({i \in 1..Len(u) : u[i] \in DigitChars}), CapNumDigits),
     has_at_symbol |-> IF Contains(u, <<"@">>) THEN 1 ELSE 0,
     num_params |-> min(Count(u, "="), CapNumParams),
     has_ip |-> _has_ip_address(Lower(parsed.netloc)),
     is_https |-> IF parsed.scheme = <<"h","t","t","p","s">> THEN 1 ELSE 0,
     path_length |-> min(Len(parsed.path), CapPathLength),
     domain_length |-> min(Len(parsed.netloc), CapDomainLength)]

\* lines 340-350: the detector call that fills the field key
DetectorCall(key, hostname, full_url) ==
    CASE key = "has_brand_spoofing" -> _detect_brand_spoofing(hostname, full_url)
      [] key = "has_suspicious_tld" -> _detect_suspicious_tld(hostname)
      [] key = "has_character_substitution" -> _detect_character_substitution(hostname)
      [] key = "has_suspicious_keywords" -> _detect_suspicious_keywords(full_url, hostname)
      [] key = "is_url_shortener" -> _is_url_shortener(hostname)
      [] key = "excessive_subdomains" -> _has_excessive_subdomains(hostname)
      [] key = "suspicious_keyword_combo" -> _detect_suspicious_keyword_combinations(full_url, hostname)

\* lines 314-337: the early returns, the except clause, the dict literal
ThreadEnter(t) ==
    /\ threads[t].pc = "called"
    /\ LET u == threads[t].url
       IN  threads' = [threads EXCEPT ![t] =
               IF \/ u.truth # "truthy"
                  \/ ~u.isstr
                  \/ urlparse(u.s).raised
                  \/ urlparse(u.s).netloc = <<>>
               THEN [@ EXCEPT !.pc = "returned", !.features = _get_default_features]
               ELSE [@ EXCEPT !.pc = "detecting", !.k = 1,
                              !.features = BasicFeatures(u.s, urlparse(u.s))]]
    /\ UNCHANGED <<url, fault, pc, extractors, this, history, frame, columns, features, retrain, request, dataset>>

\* the detector call whitelists the host it has just looked at
ThreadDetect_learning(t) ==
    /\ threads[t].pc = "detecting"
    /\ LET u == threads[t].url.s
           parsed == urlparse(u)
           key == DetectorKeys[threads[t].k]
       IN  /\ threads' = [threads EXCEPT ![t] =
                  [@ EXCEPT !.features = @ @@ (key :> DetectorCall(key, Lower(parsed.netloc), Lower(u))),
                            !.k = @ + 1,
                            !.pc = IF threads[t].k = Len(DetectorKeys) THEN "built" ELSE "detecting"]]
           /\ extractors' = [extractors EXCEPT ![this].legitimate_domains =
                                 @ \cup {Lower(parsed.netloc)}]
    /\ UNCHANGED <<url, fault, pc, this, history, frame, columns, features, retrain, request, dataset>>

\* lines 340-350: one detector call, reading the registries of the extractor
ThreadDetect(t) ==
    /\ threads[t].pc = "detecting"
    /\ LET u == threads[t].url.s
           parsed == urlparse(u)
           key == DetectorKeys[threads[t].k]
       IN  threads' = [threads EXCEPT ![t] =
               [@ EXCEPT !.features = @ @@ (key :> DetectorCall(key, Lower(parsed.netloc), Lower(u))),
                         !.k = @ + 1,
                         !.pc = IF threads[t].k = Len(DetectorKeys) THEN "built" ELSE "detecting"]]
    /\ UNCHANGED <<url, fault, pc, extractors, this, history, frame, columns, features, retrain, request, dataset>>

\* line 352: return features
ThreadReturn(t) ==
    /\ threads[t].pc = "built"
    /\ threads' = [threads EXCEPT ![t].pc = "returned"]
    /\ UNCHANGED <<url, fault, pc, extractors, this, history, frame, columns, features, retrain, request, dataset>>

NextThreads ==
    \E t \in 1..MaxThreads : ThreadEnter(t) \/ ThreadDetect(t) \/ ThreadReturn(t)

SpecThreads == InitThreads /\ [][NextThreads]_vars

----------------------------------------------------------------------------
(* retrain_improved_model.py: run_script and main                          *)

\* the variables of the feature extractor and of its callers
extractor_vars == <<url, fault, pc, extractors, this, history, threads, frame, columns, features>>

Whitespace == {" ", "\t", "\n", "\r"}

\* str.strip()
strip(s) ==
    LET keep == {i \in 1..Len(s) : s[i] \notin Whitespace}
    IN  IF keep = {} THEN <<>>
        ELSE SubSeq(s, Min(keep), CHOOSE i \in keep : \A j \in keep : j <= i)

\* the scripts main hands to run_script, in the order of its statements
Steps == <<"add_diverse_legitimate_urls.py", "add_educational_sites.py",
           "feature_extraction.py", "train_model.py">>

\* what the user types at the prompt; EndOfInput: input() raises EOFError
EndOfInput == <<"EOF">>

Answers == {<<"y","e","s">>, <<"y">>, <<"Y","E","S">>, <<"Y">>, <<" ","Y","e","s"," ">>, <<"y", "\n">>, <<"y","E","s">>, <<"\t", "y", "e", "s">>,
            <<"n","o">>, <<"n">>, <<>>, <<"y","e","s","!">>, <<"y","y">>, <<"y","e"," ","s">>, <<"o","k">>, EndOfInput}

\* how subprocess.run ends: it returns, raises CalledProcessError (non-zero
\* exit status), raises another Exception (script not startable), or the
\* user interrupts it (KeyboardInterrupt is no Exception)
Outcomes == {"returned", "CalledProcessError", "Exception", "KeyboardInterrupt"}

InitRetrain ==
    /\ \E a \in Answers :
          retrain = [answer |-> a, pc |-> "prompt", started |-> <<>>, results |-> <<>>,
                     completion_logged |-> FALSE]
    /\ request = NoRequest
    /\ dataset = NoDataset
    /\ url = Str(<<>>)
    /\ fault = NoFault
    /\ pc = "idle"
    /\ extractors = <<>>
    /\ this = 1
    /\ history = <<>>
    /\ threads = <<>>
    /\ frame = NoFrame
    /\ columns = <<>>
    /\ features = NoFeatures

\* response = input(...).strip().lower(); if response not in ['yes', 'y']: return
Confirm ==
    /\ retrain.pc = "prompt"
    /\ retrain' = [retrain EXCEPT !.pc =
                      IF retrain.answer = EndOfInput THEN "raised"
                      ELSE IF Lower(strip(retrain.answer)) \in {<<"y","e","s">>, <<"y">>} THEN "step"
                      ELSE "aborted"]
    /\ UNCHANGED <<request, dataset>>
    /\ UNCHANGED extractor_vars

\* the result of run_script is not looked at
RunScript_unchecked ==
    /\ retrain.pc = "step"
    /\ Len(retrain.started) < Len(Steps)
    /\ \E outcome \in Outcomes :
          retrain' = [retrain EXCEPT
                         !.started = Append(@, Steps[Len(retrain.started) + 1]),
                         !.results = Append(@, outcome),
                         !.pc = IF outcome = "KeyboardInterrupt" THEN "raised" ELSE "step"]
    /\ UNCHANGED <<request, dataset>>
    /\ UNCHANGED extractor_vars

\* if not run_script(script, description): log and return
RunScript ==
    /\ retrain.pc = "step"
    /\ Len(retrain.started) < Len(Steps)
    /\ \E outcome \in Outcomes :
          retrain' = [retrain EXCEPT
                         !.started = Append(@, Steps[Len(retrain.started) + 1]),
                         !.results = Append(@, outcome),
                         !.pc = CASE outcome = "returned" -> "step"
                                  [] outcome = "KeyboardInterrupt" -> "raised"
                                  [] OTHER -> "failed"]
    /\ UNCHANGED <<request, dataset>>
    /\ UNCHANGED extractor_vars

\* the final success message
LogCompletion ==
    /\ retrain.pc = "step"
    /\ Len(retrain.started) = Len(Steps)
    /\ retrain' = [retrain EXCEPT !.pc = "completed", !.completion_logged = TRUE]
    /\ UNCHANGED <<request, dataset>>
    /\ UNCHANGED extractor_vars

NextRetrain == Confirm \/ RunScript \/ LogCompletion

SpecRetrain == InitRetrain /\ [][NextRetrain]_vars

----------------------------------------------------------------------------
(* app.py: POST /predict                                                   *)

\* request.json: the parsed body. 'in' is what the test 'url' in data gives
\* ("TypeError" where the body is no container), 'get' whether data.get
\* exists, 'url' the value data.get("url") hands back
JsonNull == [kind |-> "null", truthy |-> FALSE, in |-> "False", get |-> FALSE, url |-> NonStr("falsy")]
JsonObject(has_url, v) ==
    [kind |-> "object", truthy |-> TRUE, in |-> IF has_url THEN "True" ELSE "False",
     get |-> TRUE, url |-> v]
JsonEmptyObject == [kind |-> "object", truthy |-> FALSE, in |-> "False", get |-> TRUE, url |-> NonStr("falsy")]
JsonNumber(nonzero) ==
    [kind |-> "number", truthy |-> nonzero, in |-> "TypeError", get |-> FALSE, url |-> NonStr("falsy")]
JsonArray(has_url) ==
    [kind |-> "array", truthy |-> TRUE, in |-> IF has_url THEN "True" ELSE "False",
     get |-> FALSE, url |-> NonStr("falsy")]
JsonString(has_url) ==
    [kind |-> "string", truthy |-> TRUE, in |-> IF has_url THEN "True" ELSE "False",
     get |-> FALSE, url |-> NonStr("falsy")]
\* a body that is no JSON: request.json raises
JsonInvalid == [kind |-> "invalid", truthy |-> FALSE, in |-> "False", get |-> FALSE, url |-> NonStr("falsy")]

Bodies ==
    {JsonNull, JsonEmptyObject, JsonInvalid,
     JsonObject(FALSE, NonStr("falsy")),
     JsonObject(TRUE, NonStr("falsy")), JsonObject(TRUE, NonStr("truthy")),
     JsonObject(TRUE, Str(<<>>)), JsonObject(TRUE, Str(<<" "," "," ">>)),
     JsonObject(TRUE, Str(<<"h","t","t","p","s",":","/","/","w","h","a","t","s","a","p","p","-","v","e","r","i","f","y",".","t","k">>)),
     JsonObject(TRUE, Str(<<" ","h","t","t","p","s",":","/","/","w","e","b",".","w","h","a","t","s","a","p","p",".","c","o","m"," ">>)),
     JsonNumber(TRUE), JsonNumber(FALSE),
     JsonArray(TRUE), JsonArray(FALSE), JsonString(TRUE), JsonString(FALSE)}

\* model.predict(features_df)[0]: a class, another number, a value int()
\* rejects, or an exception
ModelOutputs == {"0", "1", "2", "-1", "nan", "raises"}

int(v) == CASE v = "0" -> 0 [] v = "1" -> 1 [] v = "2" -> 2 [] v = "-1" -> -1

Response(status, prediction, extracted, predicted) ==
    [status |-> status, prediction |-> prediction,
     extraction_called |-> extracted, model_called |-> predicted]

NoPrediction == "none"

InitPredict ==
    /\ \E b \in Bodies, loaded \in BOOLEAN, ext \in {"ok", "raises"},
          out \in ModelOutputs, proba \in {"ok", "raises"} :
          request = [data |-> b, model_loaded |-> loaded, extraction |-> ext,
                     model_output |-> out, probability |-> proba,
                     pc |-> "received", response |-> NoRequest]
    /\ retrain = NoRetrain
    /\ dataset = NoDataset
    /\ url = Str(<<>>)
    /\ fault = NoFault
    /\ pc = "idle"
    /\ extractors = <<>>
    /\ this = 1
    /\ history = <<>>
    /\ threads = <<>>
    /\ frame = NoFrame
    /\ columns = <<>>
    /\ features = NoFeatures

\* the body of predict()
predict(r) ==
    LET data == r.data
    IN  IF data.kind = "invalid" THEN Response(500, NoPrediction, FALSE, FALSE)
        ELSE IF ~data.truthy THEN Response(400, NoPrediction, FALSE, FALSE)
        ELSE IF data.in = "TypeError" THEN Response(500, NoPrediction, FALSE, FALSE)
        ELSE IF data.in = "False" THEN Response(400, NoPrediction, FALSE, FALSE)
        ELSE IF ~data.get THEN Response(500, NoPrediction, FALSE, FALSE)
        ELSE IF ~data.url.isstr \/ strip(data.url.s) = <<>>
             THEN Response(400, NoPrediction, FALSE, FALSE)
        ELSE IF r.extraction = "raises" THEN Response(500, NoPrediction, TRUE, FALSE)
        ELSE IF ~r.model_loaded THEN Response(503, NoPrediction, TRUE, FALSE)
        ELSE IF r.model_output \in {"raises", "nan"} \/ r.probability = "raises"
             THEN Response(500, NoPrediction, TRUE, TRUE)
        ELSE LET prediction == int(r.model_output)
             IN  Response(200, IF prediction \notin {0, 1} THEN 1 ELSE prediction, TRUE, TRUE)

Predict ==
    /\ request.pc = "received"
    /\ request' = [request EXCEPT !.pc = "responded", !.response = predict(request)]
    /\ UNCHANGED <<retrain, dataset>>
    /\ UNCHANGED extractor_vars

NextPredict == Predict

SpecPredict == InitPredict /\ [][NextPredict]_vars

----------------------------------------------------------------------------
(* train_model.py: PhishingModelTrainer.balance_dataset                    *)

MaxRows == 5

\* a table is the set of its rows; a row is <<label, number>>
Rows(label, n) == {<<label, i>> : i \in 1..n}

max(a, b) == IF a > b THEN a ELSE b

\* ratio <= 2.0 for ratio = max_count / min_count, float('inf') when min_count = 0
RatioAtMostTwo(min_count, max_count) == min_count > 0 /\ max_count <= 2 * min_count

\* the product is rounded to the nearest integer instead of truncated
target_majority_size_rounded(min_count, max_count) == min(max_count, (3 * min_count + 1) \div 2)

\* min(max_count, int(min_count * 1.5))
target_majority_size(min_count, max_count) == min(max_count, (3 * min_count) \div 2)

\* table.sample(n=n, random_state=...): some n rows of the table
Samples(table, n) == {s \in SUBSET table : Cardinality(s) = n}

InitBalance ==
    /\ \E n0 \in 0..MaxRows, n1 \in 0..MaxRows :
          dataset = [legitimate |-> Rows(0, n0), phishing |-> Rows(1, n1),
                     pc |-> "called", balanced_df |-> {}]
    /\ retrain = NoRetrain
    /\ request = NoRequest
    /\ url = Str(<<>>)
    /\ fault = NoFault
    /\ pc = "idle"
    /\ extractors = <<>>
    /\ this = 1
    /\ history = <<>>
    /\ threads = <<>>
    /\ frame = NoFrame
    /\ columns = <<>>
    /\ features = NoFeatures

\* the body of balance_dataset; the final shuffles keep the set of rows
balance_dataset ==
    /\ dataset.pc = "called"
    /\ LET legitimate == dataset.legitimate
           phishing == dataset.phishing
           min_count == min(Cardinality(legitimate), Cardinality(phishing))
           max_count == max(Cardinality(legitimate), Cardinality(phishing))
       IN  IF RatioAtMostTwo(min_count, max_count)
           THEN dataset' = [dataset EXCEPT !.pc = "returned",
                                           !.balanced_df = legitimate \cup phishing]
           ELSE IF Cardinality(phishing) > Cardinality(legitimate)
                THEN \E phishing_balanced \in
                         Samples(phishing, target_majority_size(min_count, max_count)) :
                         dataset' = [dataset EXCEPT !.pc = "returned",
                                         !.balanced_df = legitimate \cup phishing_balanced]
                ELSE \E legitimate_balanced \in
                         Samples(legitimate, target_majority_size(min_count, max_count)) :
                         dataset' = [dataset EXCEPT !.pc = "returned",
                                         !.balanced_df = legitimate_balanced \cup phishing]
    /\ UNCHANGED <<retrain, request>>
    /\ UNCHANGED extractor_vars

NextBalance == balance_dataset

SpecBalance == InitBalance /\ [][NextBalance]_vars
----------------------------------------------------------------------------
(* what the properties speak about                                         *)

Parsed == urlparse(url.s)

\* the argument is a non-empty str that urlparse splits without raising
\* and with a host
Parseable ==
    /\ url.isstr
    /\ url.s # <<>>
    /\ ~Parsed.raised
    /\ Parsed.netloc # <<>>

Hostname == Lower(Parsed.netloc)

IsDefaultVector(v) ==
    /\ DOMAIN v = SchemaFields
    /\ \A k \in SchemaFields : v[k] = 0

\* is_legitimate as the specification words it: one leading "www." is
\* stripped, then equality with an entry or a suffix "." + entry
StripLeadingWww(h) == IF StartsWith(h, www_dot) THEN From(h, Len(www_dot) + 1) ELSE h

IsLegitimate(h) ==
    \E d \in legitimate_domains :
        \/ StripLeadingWww(h) = d
        \/ EndsWith(StripLeadingWww(h), <<".">> \o d)

\* four dot-separated groups of one to three digits
DottedQuad(h) ==
    /\ Count(h, ".") = 3
    /\ \A i \in 1..Len(h) : h[i] \in DigitChars \cup {"."}
    /\ \A g \in 1..4 : Len(Split(h, ".")[g]) \in 1..3

EndsWithSuspiciousTld(h) ==
    \E i \in 1..Len(suspicious_tlds) : EndsWith(h, suspicious_tlds[i])

----------------------------------------------------------------------------
(* C1 Totality: for every input string, the call never raises to its       *)
(* caller and hands back a mapping with exactly the 17 schema fields.      *)
C1_Totality ==
    url.isstr =>
        /\ pc # "raised"
        /\ pc = "returned" => DOMAIN features = SchemaFields

\* a string on which urlparse raises was still answered with 17 fields
C1_Witness ==
    /\ pc = "returned"
    /\ url.isstr
    /\ url.s # <<>>
    /\ Parsed.raised
    /\ DOMAIN features = SchemaFields

(* C2 Legitimacy veto: for "https://" + v + "/" + p, where v is a          *)
(* whitelisted domain h, "www." + h or sub + "." + h, the fields           *)
(* has_brand_spoofing, has_character_substitution, has_suspicious_keywords *)
(* and suspicious_keyword_combo are 0.                                     *)
LegitVariant(v) ==
    \E h \in legitimate_domains :
        \/ v = h
        \/ v = www_dot \o h
        \/ Len(v) > Len(h) + 1 /\ EndsWith(v, <<".">> \o h)

HttpsPrefix == <<"h","t","t","p","s",":","/","/">>

\* the v of a url written "https://" + v + "/" + p, <<>> for another url
HttpsHostBeforeSlash ==
    IF url.isstr /\ StartsWith(url.s, HttpsPrefix)
    THEN LET rest == From(url.s, Len(HttpsPrefix) + 1)
             slash == Find(rest, <<"/">>)
         IN  IF slash = 0 THEN <<>> ELSE SubSeq(rest, 1, slash - 1)
    ELSE <<>>

C2_LegitimacyVeto ==
    (pc = "returned" /\ LegitVariant(HttpsHostBeforeSlash)) =>
        /\ features.has_brand_spoofing = 0
        /\ features.has_character_substitution = 0
        /\ features.has_suspicious_keywords = 0
        /\ features.suspicious_keyword_combo = 0

(* C3 is_legitimate(host) holds exactly when the host, with one leading    *)
(* "www." removed and nothing else, equals a whitelisted domain or ends    *)
(* with "." + a whitelisted domain.                                        *)
C3_LegitimateIffLeadingWwwStripped ==
    (pc = "returned" /\ Parseable) =>
        (_is_legitimate_domain(Hostname) = 1 <=> IsLegitimate(Hostname))

(* C4 as claimed: whenever the whitelist check accepts the host, all eight *)
(* detector fields are 0.                                                  *)
C4_VetoAllDetectors ==
    (pc = "returned" /\ Parseable /\ _is_legitimate_domain(Hostname) = 1) =>
        \A d \in Detectors : features[d] = 0

(* C4 amended: whenever the whitelist check of the code accepts the host,  *)
(* has_ip, has_suspicious_tld, has_character_substitution,                 *)
(* has_brand_spoofing, has_suspicious_keywords and                         *)
(* suspicious_keyword_combo are 0; is_url_shortener and                    *)
(* excessive_subdomains are computed without consulting the whitelist.     *)
VetoedDetectors == Detectors \ {"is_url_shortener", "excessive_subdomains"}

C4_VetoGatedDetectors ==
    (pc = "returned" /\ Parseable /\ _is_legitimate_domain(Hostname) = 1) =>
        /\ \A d \in VetoedDetectors : features[d] = 0
        /\ features.is_url_shortener = (IF Replace(Hostname, www_dot, <<>>) \in url_shorteners THEN 1 ELSE 0)
        /\ features.excessive_subdomains = (IF Count(Hostname, ".") + 1 > MaxSubdomainParts THEN 1 ELSE 0)

\* a whitelisted host that is also a shortener, with a path naming a
\* keyword pair, was answered
C4_Witness ==
    /\ pc = "returned"
    /\ Parseable
    /\ _is_legitimate_domain(Hostname) = 1
    /\ features.is_url_shortener = 1
    /\ Contains(Lower(url.s), <<"v","e","r","i","f","y">>)
    /\ Contains(Lower(url.s), <<"u","r","g","e","n","t">>)

(* C5 as claimed: for every input string, each capped field equals         *)
(* min(raw count, cap).                                                    *)
RawCounts ==
    [url_length |-> Len(url.s),
     num_dots |-> Count(url.s, "."),
     num_hyphens |-> Count(url.s, "-"),
     num_digits |-> Cardinality({i \in 1..Len(url.s) : url.s[i] \in DigitChars}),
     num_params |-> Count(url.s, "="),
     path_length |-> Len(Parsed.path),
     domain_length |-> Len(Parsed.netloc)]

Caps ==
    [url_length |-> 150, num_dots |-> 5, num_hyphens |-> 5, num_digits |-> 10,
     num_params |-> 5, path_length |-> 100, domain_length |-> 50]

CappedFields == DOMAIN Caps

Clip(raw, cap) == IF raw > cap THEN cap ELSE raw

C5_CapEveryString ==
    (pc = "returned" /\ url.isstr /\ ~Parsed.raised) =>
        \A k \in CappedFields : features[k] = Clip(RawCounts[k], Caps[k])

(* C5 amended: for every input string that urlparse splits without raising *)
(* and with a non-empty host, each capped field equals min(raw count, cap);*)
(* for every other input string the seven fields are 0.                    *)
C5_CapParseable ==
    (pc = "returned" /\ url.isstr) =>
        IF Parseable
        THEN \A k \in CappedFields : features[k] = Clip(RawCounts[k], Caps[k])
        ELSE \A k \in CappedFields : features[k] = 0

\* all seven raw counts exceeded their caps and were clipped
C5_Witness ==
    /\ pc = "returned"
    /\ Parseable
    /\ \A k \in CappedFields : RawCounts[k] > Caps[k] /\ features[k] = Caps[k]

(* C6 Unparseable input: an argument that is empty, not a string, or       *)
(* without a host component (in particular every string without "//")      *)
(* yields the all-zero vector with the 17 fields, and nothing is raised.   *)
NoHostComponent ==
    /\ url.isstr
    /\ \/ ~Contains(url.s, <<"/", "/">>)
       \/ ~Parsed.raised /\ Parsed.netloc = <<>>

C6_UnparseableGivesDefault ==
    (~url.isstr \/ url.s = <<>> \/ NoHostComponent) =>
        /\ pc # "raised"
        /\ pc = "returned" => IsDefaultVector(features)

\* a non-empty string without a host was answered with the zero vector
C6_Witness ==
    /\ pc = "returned"
    /\ url.isstr
    /\ url.s # <<>>
    /\ NoHostComponent
    /\ IsDefaultVector(features)

(* C7 as claimed: when one detector fails on a parseable URL, only its     *)
(* field is 0 and every other field keeps its normally computed value.     *)
C7_OnlyFailedDetectorZero ==
    (pc = "returned" /\ Parseable /\ fault \in Detectors) =>
        features = [BuildFeatures(url.s, Parsed) EXCEPT ![fault] = 0]

(* C7 amended: when one detector fails on a parseable URL, the exception   *)
(* is caught by the single handler of extract_features and the whole row   *)
(* is replaced by the all-zero default vector; nothing is raised.          *)
C7_FailedDetectorGivesDefault ==
    (Parseable /\ fault \in Detectors) =>
        /\ pc # "raised"
        /\ pc = "returned" => IsDefaultVector(features)

\* a detector failed on a URL whose row would otherwise not be all zero
C7_Witness ==
    /\ pc = "returned"
    /\ Parseable
    /\ fault \in Detectors
    /\ ~IsDefaultVector(BuildFeatures(url.s, Parsed))
    /\ IsDefaultVector(features)

(* C8 as claimed: an http URL whose host is a dotted-quad literal and      *)
(* whose path holds a hyphenated brand token has has_ip = 1, is_https = 0  *)
(* and has_brand_spoofing = 1.                                             *)
HyphenatedBrandInPath ==
    \E b \in 1..Len(brand_keywords) :
        \/ Contains(Lower(Parsed.path), brand_keywords[b] \o <<"-">>)
        \/ Contains(Lower(Parsed.path), <<"-">> \o brand_keywords[b])

Scenario3 ==
    /\ pc = "returned"
    /\ Parseable
    /\ Parsed.scheme = <<"h","t","t","p">>
    /\ DottedQuad(Parsed.netloc)
    /\ HyphenatedBrandInPath

C8_IpHostBrandInPathSpoofing ==
    Scenario3 =>
        /\ features.has_ip = 1
        /\ features.is_https = 0
        /\ features.has_brand_spoofing = 1

(* C8 amended: such a URL has has_ip = 1, is_https = 0 and                 *)
(* has_brand_spoofing = 0: the brand detector reads the host only.         *)
C8_IpHostBrandInPathNoSpoofing ==
    Scenario3 =>
        /\ features.has_ip = 1
        /\ features.is_https = 0
        /\ features.has_brand_spoofing = 0

C8_Witness == Scenario3 /\ features.has_ip = 1

(* C9 has_brand_spoofing = 1 exactly when the host is not legitimate,      *)
(* contains a brand b, is neither one of b's domains nor a subdomain of    *)
(* one, and contains -b, b-, b+security, b+verify, b+suspended or b+alert  *)
(* or ends with a suspicious TLD.                                          *)
BrandSignal(h, brand) ==
    /\ Contains(h, brand)
    /\ \A d \in legitimate_brand_domains(brand) :
          h # d /\ ~EndsWith(h, <<".">> \o d)
    /\ \/ \E a \in {<<"-">> \o brand, brand \o <<"-">>, brand \o <<"s","e","c","u","r","i","t","y">>,
                    brand \o <<"v","e","r","i","f","y">>, brand \o <<"s","u","s","p","e","n","d","e","d">>, brand \o <<"a","l","e","r","t">>} :
              Contains(h, a)
       \/ EndsWithSuspiciousTld(h)

C9_BrandSpoofingIff ==
    (pc = "returned" /\ Parseable) =>
        (features.has_brand_spoofing = 1 <=>
            /\ ~IsLegitimate(Hostname)
            /\ \E b \in 1..Len(brand_keywords) : BrandSignal(Hostname, brand_keywords[b]))

(* C10 has_suspicious_keywords = 1 exactly when the host is not legitimate *)
(* and either the host contains a domain-level keyword, or the path        *)
(* contains a path-level keyword and the host ends with a suspicious TLD,  *)
(* is an IP literal, or '@' occurs in the URL.                             *)
DomainKeywordInHost ==
    \E k \in {<<"v","e","r","i","f","y">>, <<"s","u","s","p","e","n","d","e","d">>, <<"l","o","c","k","e","d">>, <<"u","r","g","e","n","t">>, <<"a","l","e","r","t">>,
              <<"w","a","r","n","i","n","g">>, <<"c","o","n","f","i","r","m">>, <<"v","a","l","i","d","a","t","e">>, <<"f","a","k","e">>, <<"d","e","a","l">>} :
        Contains(Hostname, k)

PathKeywordInPath ==
    \E k \in {<<"s","u","s","p","e","n","d">>, <<"l","o","c","k","e","d">>, <<"u","r","g","e","n","t">>, <<"i","m","m","e","d","i","a","t","e">>} :
        Contains(Lower(Parsed.path), k)

Corroborated ==
    \/ EndsWithSuspiciousTld(Hostname)
    \/ DottedQuad(Hostname)
    \/ Contains(url.s, <<"@">>)

C10_SuspiciousKeywordsIff ==
    (pc = "returned" /\ Parseable) =>
        (features.has_suspicious_keywords = 1 <=>
            /\ ~IsLegitimate(Hostname)
            /\ \/ DomainKeywordInHost
               \/ PathKeywordInPath /\ Corroborated)

(* C11 Path keywords never trigger alone: when the host holds no           *)
(* domain-level keyword, does not end with a suspicious TLD, is no IP      *)
(* literal and the URL holds no '@', has_suspicious_keywords = 0 whatever  *)
(* follows the host; has_suspicious_keywords = 1 without a domain-level    *)
(* keyword implies has_suspicious_tld = 1, has_ip = 1 or has_at_symbol = 1.*)
C11_PathKeywordNeedsSignal ==
    (pc = "returned" /\ Parseable) =>
        /\ (~DomainKeywordInHost /\ ~Corroborated) => features.has_suspicious_keywords = 0
        /\ (features.has_suspicious_keywords = 1 /\ ~DomainKeywordInHost) =>
              \/ features.has_suspicious_tld = 1
              \/ features.has_ip = 1
              \/ features.has_at_symbol = 1

\* a path keyword after an ordinary, not whitelisted host was answered 0
C11_Witness ==
    /\ pc = "returned"
    /\ Parseable
    /\ ~IsLegitimate(Hostname)
    /\ _is_legitimate_domain(Hostname) = 0
    /\ ~DomainKeywordInHost
    /\ ~Corroborated
    /\ PathKeywordInPath
    /\ features.has_suspicious_keywords = 0

----------------------------------------------------------------------------
(* C12 is_url_shortener = 1 exactly when the host, one leading "www."      *)
(* stripped, is a member of the shortener hosts; a host that becomes a     *)
(* shortener host only by removing a "www." elsewhere gives 0.             *)
C12_ShortenerIffLeadingWwwStripped ==
    (pc = "returned" /\ Parseable) =>
        (features.is_url_shortener = 1 <=> StripLeadingWww(Hostname) \in url_shorteners)

----------------------------------------------------------------------------
\* v is sub + "." + s for a shortener host s and a non-empty sub other than "www"
UnderShortener(v) ==
    \E s \in url_shorteners :
        /\ Len(v) > Len(s) + 1
        /\ EndsWith(v, <<".">> \o s)
        /\ Lower(SubSeq(v, 1, Len(v) - Len(s) - 1)) # <<"w","w","w">>

\* v is s + "." + more for a shortener host s
ShortenerAsLeadingLabels(v) ==
    \E s \in url_shorteners : Len(v) > Len(s) + 1 /\ StartsWith(v, s \o <<".">>)

(* C13 No suffix or prefix leniency for shorteners: "https://" + s + "/x"  *)
(* has is_url_shortener = 1 for every shortener host s; a host that has s  *)
(* only as its leading labels (s + ".evil.com") or as a dot-suffix         *)
(* (sub + "." + s, sub not "www") has is_url_shortener = 0.                *)
C13_ShortenerExactHostOnly ==
    (pc = "returned" /\ HttpsHostBeforeSlash # <<>>) =>
        /\ HttpsHostBeforeSlash \in url_shorteners => features.is_url_shortener = 1
        /\ ShortenerAsLeadingLabels(HttpsHostBeforeSlash) => features.is_url_shortener = 0
        /\ UnderShortener(HttpsHostBeforeSlash) => features.is_url_shortener = 0

----------------------------------------------------------------------------
\* the second-to-last dot-separated label of h, <<>> for a single label
SecondLevelLabel(h) ==
    LET labels == Split(h, ".")
    IN  IF Len(labels) < 2 THEN <<>> ELSE labels[Len(labels) - 1]

\* the label holds, somewhere, a match of one of the look-alike patterns
LooksAlike(label) ==
    \/ \E pattern \in lookalike_patterns : SearchClasses(Lower(label), pattern)
    \/ \E d \in {"0", "4"} : SearchRun(label, d)

(* C14 has_character_substitution = 1 exactly when the host is not         *)
(* legitimate, does not start with a numbered-subdomain prefix, has at     *)
(* least two labels and its second-to-last label matches a look-alike      *)
(* pattern; a host starting with a numbered prefix always yields 0.        *)
C14_CharacterSubstitutionIff ==
    (pc = "returned" /\ Parseable) =>
        /\ features.has_character_substitution = 1 <=>
              /\ ~IsLegitimate(Hostname)
              /\ ~HasNumberedPrefix(Hostname)
              /\ Count(Hostname, ".") >= 1
              /\ LooksAlike(SecondLevelLabel(Hostname))
        /\ HasNumberedPrefix(Hostname) => features.has_character_substitution = 0

----------------------------------------------------------------------------
\* the pairs of the combination table whose first member is a brand
BrandActionPairs ==
    {c \in brand_action_combos : \E i \in 1..Len(brand_keywords) : c[1] = brand_keywords[i]}

\* h is brand + "-" + action + a suspicious TLD
BrandActionHost(h) ==
    \E c \in BrandActionPairs, i \in 1..Len(suspicious_tlds) :
        h = c[1] \o <<"-">> \o c[2] \o suspicious_tlds[i]

----------------------------------------------------------------------------
\* the lower-cased URL holds both members of some pair of the table
PairInUrl ==
    \E c \in brand_action_combos :
        Contains(Lower(url.s), c[1]) /\ Contains(Lower(url.s), c[2])

(* C16 suspicious_keyword_combo = 1 exactly when the host is not            *)
(* legitimate and the lower-cased URL holds, anywhere and in any order,     *)
(* both members of at least one pair of the combination table.              *)
C16_KeywordComboIff ==
    (pc = "returned" /\ Parseable) =>
        (features.suspicious_keyword_combo = 1 <=> (~IsLegitimate(Hostname) /\ PairInUrl))

----------------------------------------------------------------------------
(* C17 has_ip = 1 exactly when the whole host is four dot-separated groups *)
(* of one to three decimal digits: extra labels, letters, a port or an     *)
(* embedded quad give 0, out-of-range groups (123.456.789.012) give 1.     *)
C17_IpIffDottedQuad ==
    (pc = "returned" /\ Parseable) =>
        (features.has_ip = 1 <=> DottedQuad(Hostname))

\* an out-of-range quad was answered 1 and a quad with a port answered 0
C17_Witness ==
    /\ pc = "returned"
    /\ Parseable
    /\ \/ /\ Hostname = <<"1","2","3",".","4","5","6",".","7","8","9",".","0","1","2">>
          /\ features.has_ip = 1
       \/ /\ StartsWith(Hostname, <<"1","9","2",".","1","6","8",".","1",".","1","0","0",":">>)
          /\ features.has_ip = 0

----------------------------------------------------------------------------
\* the entries as the claim lists them
ListedSuspiciousTlds ==
    {<<".","t","k">>, <<".","m","l">>, <<".","g","a">>, <<".","c","f">>, <<".","g","q">>, <<".","l","o","a","n">>, <<".","w","i","n">>, <<".","b","i","d">>}

(* C18 has_suspicious_tld = 1 exactly when the host ends with one of       *)
(* .tk, .ml, .ga, .cf, .gq, .loan, .win, .bid.                             *)
C18_SuspiciousTldIff ==
    (pc = "returned" /\ Parseable) =>
        (features.has_suspicious_tld = 1 <=>
            \E tld \in ListedSuspiciousTlds : EndsWith(Hostname, tld))

\* a host under .loan was answered 1
C18_Witness ==
    /\ pc = "returned"
    /\ Parseable
    /\ EndsWith(Hostname, <<".","l","o","a","n">>)
    /\ features.has_suspicious_tld = 1

----------------------------------------------------------------------------
(* C19 For every host the whitelist check accepts (with the "www."         *)
(* removal the code performs) has_suspicious_tld = 0 and has_ip = 0: no    *)
(* whitelisted domain lets such a host end with a suspicious TLD or be a   *)
(* dotted quad.                                                            *)
C19_WhitelistedNeverTldNorIp ==
    /\ (pc = "returned" /\ Parseable /\ _is_legitimate_domain(Hostname) = 1) =>
          /\ features.has_suspicious_tld = 0
          /\ features.has_ip = 0
    /\ \A d \in legitimate_domains :
          /\ \E k \in 1..Len(d) : d[k] \notin DigitChars \cup {"."}
          /\ \A i \in 1..Len(suspicious_tlds) :
                /\ ~EndsWith(d, From(suspicious_tlds[i], 2))
                /\ ~EndsWith(From(suspicious_tlds[i], 2), d)

\* a host accepted only through the removal of an inner "www."
C19_Witness ==
    /\ pc = "returned"
    /\ Parseable
    /\ _is_legitimate_domain(Hostname) = 1
    /\ ~IsLegitimate(Hostname)
    /\ features.has_suspicious_tld = 0
    /\ features.has_ip = 0

----------------------------------------------------------------------------
----------------------------------------------------------------------------
\* the 17 fields in the order of the schema
SchemaOrder ==
    <<"url_length", "num_dots", "num_hyphens", "num_digits", "has_at_symbol",
      "num_params", "has_ip", "is_https", "path_length", "domain_length",
      "has_brand_spoofing", "has_suspicious_tld", "has_character_substitution",
      "has_suspicious_keywords", "is_url_shortener", "excessive_subdomains",
      "suspicious_keyword_combo">>

(* C21 Fixed schema and order: the vector of a successful parse and the    *)
(* default vector both hold exactly the 17 schema fields, inserted in the  *)
(* schema order, so parseable and unparseable URLs give the same columns.  *)
C21_FixedSchemaOrder ==
    pc = "returned" =>
        /\ columns = SchemaOrder
        /\ DOMAIN features = {columns[i] : i \in 1..Len(columns)}
        /\ Len(columns) = 17

\* a default vector handed back for a string without a host
C21_Witness ==
    /\ pc = "returned"
    /\ url.isstr
    /\ url.s # <<>>
    /\ ~Parseable
    /\ IsDefaultVector(features)
    /\ columns = SchemaOrder

\* a built vector handed back for a URL with a host
C21_WitnessBuilt ==
    /\ pc = "returned"
    /\ Parseable
    /\ ~IsDefaultVector(features)
    /\ columns = SchemaOrder

----------------------------------------------------------------------------
\* row k is what the call on urls[k] alone hands back, plus labels[k]
RowMatches(rows, k) ==
    rows[k] = frame.urls[k].alone @@ [label |-> frame.labels[k]]

(* C22 Batch row correspondence: for n urls and n labels the batch returns *)
(* exactly n rows, row i holding extract_features(urls[i]) plus            *)
(* labels[i]; an unparseable or failing URL gives the default row at its   *)
(* position and neither aborts the batch nor shifts the other rows.        *)
C22_BatchRowCorrespondence ==
    /\ pc # "raised"
    /\ frame.i = Len(frame.features_list)
    /\ \A k \in 1..Len(frame.features_list) : RowMatches(frame.features_list, k)
    /\ frame.returned =>
          /\ Len(frame.df) = Len(frame.urls)
          /\ \A k \in 1..Len(frame.df) : RowMatches(frame.df, k)

\* a returned batch with a default row between two built rows whose labels differ
C22_Witness ==
    /\ frame.returned
    /\ Len(frame.df) = 3
    /\ frame.df[1].url_length > 0
    /\ frame.df[2].url_length = 0
    /\ frame.urls[2].fault # NoFault
    /\ frame.df[3].url_length > 0
    /\ frame.df[1].label # frame.df[3].label
    /\ frame.df[2].label = 1

----------------------------------------------------------------------------
(* C23 Registries are read-only and extraction is safe under concurrency:  *)
(* no step of a call changes a registry of the extractor, and under every  *)
(* interleaving of calls on a shared extractor each call hands back the    *)
(* vector it hands back when run alone.                                    *)
C23_ReadOnlyRegistries ==
    /\ \A e \in 1..Len(extractors) : extractors[e] = __init__
    /\ \A t \in 1..Len(threads) :
          threads[t].pc = "returned" => threads[t].features = threads[t].alone

\* two calls on the same URL both returned its built vector, and the second
\* one started after the first had run some of its detectors
C23_Witness ==
    /\ Len(threads) >= 2
    /\ threads[1].pc = "returned"
    /\ threads[2].pc = "returned"
    /\ threads[1].url = threads[2].url
    /\ threads[1].features = threads[1].alone
    /\ threads[2].features = threads[2].alone
    /\ threads[1].features.has_brand_spoofing = 1

\* a call preempted between two detector calls while another one has returned
C23_Interleaved ==
    /\ Len(threads) >= 2
    /\ threads[1].pc = "detecting"
    /\ threads[1].k = 4
    /\ threads[2].pc = "returned"
    /\ threads[2].features.has_suspicious_tld = 1

----------------------------------------------------------------------------
(* C24 excessive_subdomains = 1 exactly when the host split on '.' has     *)
(* strictly more than 5 labels: 5 labels give 0, 6 give 1.                 *)
C24_ExcessiveSubdomainsIff ==
    (pc = "returned" /\ Parseable) =>
        (features.excessive_subdomains = 1 <=> Count(Hostname, ".") + 1 > 5)

\* a host of exactly 6 labels was answered 1
C24_Witness ==
    /\ pc = "returned"
    /\ Parseable
    /\ Count(Hostname, ".") + 1 = 6
    /\ features.excessive_subdomains = 1

\* a host of exactly 5 labels was answered 0
C24_WitnessFive ==
    /\ pc = "returned"
    /\ Parseable
    /\ Count(Hostname, ".") + 1 = 5
    /\ features.excessive_subdomains = 0

----------------------------------------------------------------------------
BooleanFields ==
    {"has_at_symbol", "has_ip", "is_https", "has_brand_spoofing", "has_suspicious_tld",
     "has_character_substitution", "has_suspicious_keywords", "is_url_shortener",
     "excessive_subdomains", "suspicious_keyword_combo"}

(* C25 Range invariant: for every input each boolean field is 0 or 1 and   *)
(* url_length <= 150, num_dots <= 5, num_hyphens <= 5, num_digits <= 10,   *)
(* num_params <= 5, path_length <= 100, domain_length <= 50, none negative.*)
C25_RangeInvariant ==
    pc = "returned" =>
        /\ \A k \in BooleanFields : features[k] \in {0, 1}
        /\ features.url_length \in 0..150
        /\ features.num_dots \in 0..5
        /\ features.num_hyphens \in 0..5
        /\ features.num_digits \in 0..10
        /\ features.num_params \in 0..5
        /\ features.path_length \in 0..100
        /\ features.domain_length \in 0..50

\* a vector at the upper end: a long URL on a host of more than 5 labels
C25_Witness ==
    /\ pc = "returned"
    /\ features.url_length = 150
    /\ features.path_length = 100
    /\ features.num_digits = 10
    /\ features.is_https = 1

----------------------------------------------------------------------------
\* the host as written in a URL "https://" + v + "/" + p is h + ":443" or h + "."
\* for a whitelisted domain h
WhitelistedWithPortOrDot ==
    \E h \in legitimate_domains :
        \/ HttpsHostBeforeSlash = h \o <<":","4","4","3">>
        \/ HttpsHostBeforeSlash = h \o <<".">>

(* C26 The host given to the detectors is the lower-cased full authority,  *)
(* "user@" prefix, ":port" suffix and trailing dot included:               *)
(* https://google.com@malicious-site.com/login has has_at_symbol = 1 and   *)
(* is not vetoed, https://h:443/... and https://h./... of a whitelisted h  *)
(* are not vetoed either, and http://1.2.3.4:80/ has has_ip = 0.           *)
C26_HostIsFullAuthority ==
    pc = "returned" =>
        /\ url.s = <<"h","t","t","p","s",":","/","/","g","o","o","g","l","e",".","c","o","m","@","m","a","l","i","c","i","o","u","s","-","s","i","t","e",".","c","o","m","/","l","o","g","i","n">> =>
              /\ features.has_at_symbol = 1
              /\ features.domain_length = 29
              /\ _is_legitimate_domain(Hostname) = 0
        /\ WhitelistedWithPortOrDot =>
              /\ _is_legitimate_domain(Hostname) = 0
              /\ features.domain_length = Len(HttpsHostBeforeSlash)
              /\ PairInUrl => features.suspicious_keyword_combo = 1
              /\ \A d \in legitimate_domains : ~Contains(d, <<":">>) /\ d[Len(d)] # "."
        /\ url.s = <<"h","t","t","p",":","/","/","1",".","2",".","3",".","4",":","8","0","/">> => features.has_ip = 0

\* a whitelisted domain followed by a port, on which a detector fired
C26_Witness ==
    /\ pc = "returned"
    /\ \E h \in legitimate_domains : HttpsHostBeforeSlash = h \o <<":","4","4","3">>
    /\ PairInUrl
    /\ features.suspicious_keyword_combo = 1

----------------------------------------------------------------------------
(* C27 The default vector is distinguishable from every successful         *)
(* extraction: when the URL parses with a non-empty authority and no       *)
(* exception occurs inside, url_length >= 1 and domain_length >= 1; an     *)
(* all-zero vector comes only from unparseable input or a failure inside.  *)
C27_DefaultDistinguishable ==
    pc = "returned" =>
        /\ (Parseable /\ fault = NoFault) =>
              /\ features.url_length >= 1
              /\ features.domain_length >= 1
        /\ IsDefaultVector(features) => (~Parseable \/ fault # NoFault)

\* a built vector in which nothing but the lengths and the dot count is set
C27_Witness ==
    /\ pc = "returned"
    /\ Parseable
    /\ fault = NoFault
    /\ \A k \in BooleanFields : features[k] = 0
    /\ features.url_length >= 1
    /\ features.domain_length >= 1

----------------------------------------------------------------------------
PipelineOrder == <<"add_diverse_legitimate_urls.py", "add_educational_sites.py",
                   "feature_extraction.py", "train_model.py">>

C28_WitnessCompleted ==
    /\ retrain.pc = "completed"
    /\ retrain.completion_logged
    /\ retrain.started = PipelineOrder

----------------------------------------------------------------------------
\* the request carries no url, or one that is no string, or a blank one
UrlMissingOrBlank ==
    \/ request.data.kind # "object"
    \/ request.data.in # "True"
    \/ ~request.data.url.isstr
    \/ strip(request.data.url.s) = <<>>

(* C29 Every 200 response of /predict carries prediction 0 or 1 (another   *)
(* model output is replaced by 1) and is produced only for a non-blank     *)
(* string url, a successful extraction and a loaded model; a missing,      *)
(* non-string or blank url gives 400 before any extraction or model call,  *)
(* and a missing model gives 503.                                          *)
C29_PredictResponses ==
    request.pc = "responded" =>
        /\ request.response.status = 200 =>
              /\ request.response.prediction \in {0, 1}
              /\ request.model_output \notin {"0", "1"} => request.response.prediction = 1
              /\ ~UrlMissingOrBlank
              /\ request.extraction = "ok"
              /\ request.model_loaded
        /\ UrlMissingOrBlank =>
              /\ request.response.status = 400
              /\ ~request.response.extraction_called
              /\ ~request.response.model_called
        /\ (~UrlMissingOrBlank /\ request.extraction = "ok" /\ ~request.model_loaded) =>
              request.response.status = 503

\* the same statement for the requests whose body is a JSON object or null
C29_ObjectBodies ==
    request.data.kind \in {"object", "null"} => C29_PredictResponses

----------------------------------------------------------------------------
\* the rows of one class in a table
OfClass(table, label) == {r \in table : r[1] = label}

Smaller(a, b) == IF a < b THEN a ELSE b
Larger(a, b) == IF a > b THEN a ELSE b

====
